---- MODULE Spec2Model ----
(***************************************************************************)
(* Dicecord: the Connection Supervisor (ConnectionSupervisor.js), the      *)
(* Plugin Lifecycle Manager (PluginManager.js, PluginContract.js), the     *)
(* Host Core (DicecordCore.js) and configuration loading (environment.js,  *)
(* configuration.js, LogLevel.js) as one state machine.  Asynchronous      *)
(* methods are split at their await points: one action per synchronous     *)
(* segment.                                                                *)
(***************************************************************************)
EXTENDS Integers, Sequences, FiniteSets, TLC

VARIABLES
    \* ---- ConnectionSupervisor fields
    maximumRetries, initialDelayMs, maximumDelayMs,
    currentAttempt, activeTimer, connectPromise,
    \* ---- the runtime around the supervisor
    timers,        \* pending reconnection timeouts created by scheduleReconnect
    loops,         \* performLogin invocations: id -> record
    calls,         \* connect() invocations: id -> record
    reconnects,    \* forceReconnect invocations awaiting client.destroy()
    session,       \* the transport: "none", "loggedIn" or "ready"
    \* ---- PluginManager fields and the shared connection object
    plugins,       \* this.plugins, in registration order
    listeners,     \* listeners plugins have on the client, in subscription order
    passes,        \* activateAll / deactivateAll / disposeAll calls awaiting a hook
    journal,       \* what the last step of the manager did, in order: hooks
                   \* invoked, notifications emitted, the error thrown
    pluginStorage, \* this.pluginStorage: identity -> the Map created for it
    \* ---- DicecordCore fields
    isReady,
    readyFired,    \* the once("ready") handler has run
    loggerClosed,
    shutdowns,     \* shutdown() calls, one record each
    \* ---- loadConfiguration
    processEnv,    \* the DICECORD_* environment variables
    fileConfig,    \* config/dicecord.config.json as parsed, or "ENOENT"
    configuration, \* what loadConfiguration returned, or the error thrown
    \* ---- what the environment may still do
    budget

supVars == <<maximumRetries, initialDelayMs, maximumDelayMs, currentAttempt,
             activeTimer, connectPromise, timers,
             loops, calls, reconnects, session>>
pmVars == <<plugins, listeners, passes, journal, pluginStorage>>
coreVars == <<isReady, readyFired, loggerClosed, shutdowns>>
cfgVars == <<processEnv, fileConfig, configuration>>
vars == <<supVars, pmVars, coreVars, cfgVars, budget>>

\* ------------------------------------------------------------------ bounds
\* connect() calls made from outside the supervisor
MaxConnects == 2
\* disconnect / error / invalidate signals that schedule a timer
MaxSignals == 2
\* login failures allowed to a loop whose retries are unlimited
MaxAttempts == 4
\* largest maximumRetries configured
MaxRetries == 2
\* plugins registered
MaxPlugins == 1
\* activateAll / deactivateAll / disposeAll calls made from outside the manager
MaxPasses == 2
\* context.registerEvent calls made by plugin code
MaxBinds == 1
\* plugins registered while the registry is examined
RegPlugins == 2
\* passes made over the plugins while the registry is examined
RegPasses == 1
\* plugins, passes and registerEvent calls in the life of installed plugins
LifePlugins == 2
LifePasses == 2
LifeBinds == 1
\* plugins, passes and registerEvent calls where plugins are disposed of
DisposePlugins == 2
DisposePasses == 2
DisposeBinds == 1
\* connect() calls made while a login stub is in place, and the largest
\* number of calls the stub rejects
StubConnects == 2
StubFailures == 4
\* plugins, passes and registerEvent calls while events are dispatched
DispatchPlugins == 1
DispatchPasses == 1
DispatchBinds == 2
\* start() calls and reconnection signals of a host that is started again
StartCalls == 2
StartSignals == 1
\* settings the environment and the configuration file give between them
MaxGiven == 2
\* plugins and passes where hooks fail
HookPlugins == 2
HookPasses == 2
\* plugins, passes and registerEvent calls where passes overlap
OverlapPlugins == 2
OverlapPasses == 3
OverlapBinds == 1
\* plugins, passes and registerEvent calls where plugins unsubscribe
UnbindPlugins == 2
UnbindPasses == 1
UnbindBinds == 2
\* plugins and passes where plugin code uses the context it is handed
CtxPlugins == 2
CtxPasses == 1
\* shutdown() calls made on the host
MaxShutdowns == 2
\* start() calls, reconnection signals and plugins of a host that is shut down
HostConnects == 1
HostSignals == 1
HostPlugins == 1

Min(a, b) == IF a <= b THEN a ELSE b

\* the smallest identifier not used by the frames of f
FreeId(f) ==
    CHOOSE i \in 1..(Cardinality(DOMAIN f) + 1) :
        i \notin DOMAIN f /\ \A j \in 1..(i - 1) : j \in DOMAIN f

Restrict(f, S) == [x \in S |-> f[x]]

\* -------------------------------- environment.js, configuration.js, LogLevel.js
\* Text is a sequence of characters.  A value of process.env or of the parsed
\* configuration file is Absent (undefined), Null, or a record [t, text]: a
\* string with its text, or a number with the text String() gives it.  The
\* integers of a configuration are records [t, n].
Absent == [t |-> "undefined"]

Null == [t |-> "null", text |-> <<"n", "u", "l", "l">>]

Str(text) == [t |-> "str", text |-> text]

Num(text) == [t |-> "num", text |-> text]

Integer(n) == [t |-> "int", n |-> n]

NaN == [t |-> "NaN"]

DigitValue ==
    [c \in {"0", "1", "2", "3", "4", "5", "6", "7", "8", "9"} |->
        CASE c = "0" -> 0 [] c = "1" -> 1 [] c = "2" -> 2 [] c = "3" -> 3
          [] c = "4" -> 4 [] c = "5" -> 5 [] c = "6" -> 6 [] c = "7" -> 7
          [] c = "8" -> 8 [] c = "9" -> 9]

\* the value of the digits text starts with, acc being the value read so far
RECURSIVE LeadingDigits(_, _)
LeadingDigits(text, acc) ==
    IF text = <<>> \/ Head(text) \notin DOMAIN DigitValue THEN acc
    ELSE LeadingDigits(Tail(text), 10 * acc + DigitValue[Head(text)])

RECURSIVE TrimStart(_)
TrimStart(text) ==
    IF text # <<>> /\ Head(text) = " " THEN TrimStart(Tail(text)) ELSE text

\* Number.parseInt(rawValue, 10): String(rawValue) without leading blanks,
\* an optional sign, then digits up to the first other character
ParseInt(value) ==
    LET trimmed == TrimStart(value.text)
        signed == trimmed # <<>> /\ Head(trimmed) \in {"-", "+"}
        digits == IF signed THEN Tail(trimmed) ELSE trimmed
    IN IF digits = <<>> \/ Head(digits) \notin DOMAIN DigitValue THEN NaN
       ELSE IF signed /\ Head(trimmed) = "-"
       THEN Integer(0 - LeadingDigits(digits, 0))
       ELSE Integer(LeadingDigits(digits, 0))

\* parseInteger / coerceInteger: Number.isNaN(parsed) || parsed < -1
OutOfRange(parsed) == parsed = NaN \/ parsed.n < -1

Failure(message) == [error |-> message]

IsFailure(r) == "error" \in DOMAIN r

\* parseInteger(key, rawValue) of environment.js
parseInteger(key, rawValue) ==
    LET parsed == ParseInt(rawValue)
    IN IF OutOfRange(parsed) THEN Failure(key) ELSE [value |-> parsed]

\* coerceInteger(fieldName, rawValue) of configuration.js
coerceInteger(fieldName, rawValue) ==
    LET parsed == ParseInt(rawValue)
    IN IF OutOfRange(parsed) THEN Failure(fieldName) ELSE [value |-> parsed]

\* String.prototype.toLowerCase on the letters the inputs use
ToLowerCase(text) ==
    [k \in DOMAIN text |->
        CASE text[k] = "A" -> "a" [] text[k] = "E" -> "e" [] text[k] = "N" -> "n"
          [] text[k] = "O" -> "o" [] text[k] = "R" -> "r" [] text[k] = "W" -> "w"
          [] OTHER -> text[k]]

\* LEVEL_PRIORITIES.keys()
LEVEL_PRIORITIES ==
    { <<"d", "e", "b", "u", "g">>, <<"i", "n", "f", "o">>,
      <<"w", "a", "r", "n">>, <<"e", "r", "r", "o", "r">> }

\* normalizeLogLevel(level)
normalizeLogLevel(level) ==
    IF level.t # "str" THEN Failure("Log level must be a string.")
    ELSE IF ToLowerCase(level.text) \notin LEVEL_PRIORITIES
    THEN Failure("Unknown log level")
    ELSE [value |-> Str(ToLowerCase(level.text))]

\* what `if (value)` takes for true
Truthy(value) ==
    CASE value.t = "str" -> value.text # <<>>
      [] value.t = "num" -> value.text # <<"0">>
      [] value.t \in {"undefined", "null"} -> FALSE
      [] OTHER -> TRUE

\* path.resolve(configDirectory, filePath)
PathResolve(directory, text) ==
    IF text # <<>> /\ Head(text) = "/" THEN text ELSE directory \o <<"/">> \o text


TOKEN_KEY == "DICECORD_TOKEN"

LOG_LEVEL_KEY == "DICECORD_LOG_LEVEL"

LOG_FILE_KEY == "DICECORD_LOG_FILE"

RETRY_LIMIT_KEY == "DICECORD_RETRY_LIMIT"

RETRY_INITIAL_KEY == "DICECORD_RETRY_INITIAL_MS"

RETRY_MAX_KEY == "DICECORD_RETRY_MAX_MS"

\* one `if (process.env[KEY])` of loadEnvironment: the variable is parsed
\* when it is set to something that is not empty
FromEnvironment(env, key) ==
    IF Truthy(env[key]) THEN parseInteger(key, env[key]) ELSE [value |-> Absent]

\* loadEnvironment(), environment.js: the configuration object, or the error
loadEnvironment(env) ==
    LET level == IF Truthy(env[LOG_LEVEL_KEY])
                 THEN normalizeLogLevel(env[LOG_LEVEL_KEY])
                 ELSE [value |-> Absent]
        limit == FromEnvironment(env, RETRY_LIMIT_KEY)
        initial == FromEnvironment(env, RETRY_INITIAL_KEY)
        maximum == FromEnvironment(env, RETRY_MAX_KEY)
        connection == [maximumRetries |-> limit.value,
                       initialDelayMs |-> initial.value,
                       maximumDelayMs |-> maximum.value]
    IN IF ~Truthy(env[TOKEN_KEY]) THEN Failure(TOKEN_KEY)
       ELSE IF IsFailure(level) THEN Failure(LOG_LEVEL_KEY)
       ELSE IF IsFailure(limit) THEN limit
       ELSE IF IsFailure(initial) THEN initial
       ELSE IF IsFailure(maximum) THEN maximum
       ELSE [token |-> env[TOKEN_KEY],
             logLevel |-> level.value,
             logFilePath |-> IF Truthy(env[LOG_FILE_KEY]) THEN env[LOG_FILE_KEY]
                             ELSE Absent,
             connection |->
                IF \A k \in DOMAIN connection : connection[k] = Absent
                THEN Absent ELSE connection]

\* the configuration file: what readFile and JSON.parse make of it
Unreadable(code) == [failure |-> code]

\* readConfigurationFile(configFilePath): a missing file reads as {}
readConfigurationFile(file) ==
    IF "failure" \notin DOMAIN file THEN file
    ELSE CASE file.failure = "ENOENT" ->
                [logging |-> Absent, connection |-> Absent,
                 pluginDirectories |-> Absent]
           [] file.failure = "SyntaxError" ->
                Failure("Failed to parse configuration file")
           [] OTHER -> Failure(file.failure)

\* applyLoggingSection(configuration, loggingConfig, configDirectory)
applyLoggingSection(config, loggingConfig, configDirectory) ==
    LET level == IF Truthy(loggingConfig.level) /\ config.logLevel = Absent
                 THEN normalizeLogLevel(loggingConfig.level)
                 ELSE [value |-> config.logLevel]
        path == IF Truthy(loggingConfig.filePath) /\ config.logFilePath = Absent
                THEN IF loggingConfig.filePath.t = "str"
                     THEN [value |-> Str(PathResolve(configDirectory,
                                                     loggingConfig.filePath.text))]
                     ELSE Failure("ERR_INVALID_ARG_TYPE")
                ELSE [value |-> config.logFilePath]
    IN IF IsFailure(level) THEN Failure("logging.level")
       ELSE IF IsFailure(path) THEN path
       ELSE [config EXCEPT !.logLevel = level.value, !.logFilePath = path.value]

\* one `if` of applyConnectionSection: the field of the file's section is
\* coerced when it is defined and the configuration has none yet
FromFile(current, raw, fieldName) ==
    IF raw # Absent /\ current = Absent
    THEN coerceInteger(fieldName, raw)
    ELSE [value |-> current]

NoConnection ==
    [maximumRetries |-> Absent, initialDelayMs |-> Absent, maximumDelayMs |-> Absent]

\* an applyConnectionSection in which the file's values replace the environment's
applyConnectionSectionFileFirst(config, connectionConfig) ==
    LET connection == IF config.connection = Absent THEN NoConnection
                      ELSE config.connection
        limit == IF connectionConfig.maximumRetries = Absent
                 THEN [value |-> connection.maximumRetries]
                 ELSE coerceInteger("maximumRetries", connectionConfig.maximumRetries)
        initial == IF connectionConfig.initialDelayMs = Absent
                   THEN [value |-> connection.initialDelayMs]
                   ELSE coerceInteger("initialDelayMs", connectionConfig.initialDelayMs)
        maximum == IF connectionConfig.maximumDelayMs = Absent
                   THEN [value |-> connection.maximumDelayMs]
                   ELSE coerceInteger("maximumDelayMs", connectionConfig.maximumDelayMs)
    IN IF IsFailure(limit) THEN limit
       ELSE IF IsFailure(initial) THEN initial
       ELSE IF IsFailure(maximum) THEN maximum
       ELSE [config EXCEPT !.connection =
                [maximumRetries |-> limit.value, initialDelayMs |-> initial.value,
                 maximumDelayMs |-> maximum.value]]

\* applyConnectionSection(configuration, connectionConfig)
applyConnectionSection(config, connectionConfig) ==
    LET connection == IF config.connection = Absent THEN NoConnection
                      ELSE config.connection
        limit == FromFile(connection.maximumRetries,
                    connectionConfig.maximumRetries, "connection.maximumRetries")
        initial == FromFile(connection.initialDelayMs,
                    connectionConfig.initialDelayMs, "connection.initialDelayMs")
        maximum == FromFile(connection.maximumDelayMs,
                    connectionConfig.maximumDelayMs, "connection.maximumDelayMs")
    IN IF IsFailure(limit) THEN limit
       ELSE IF IsFailure(initial) THEN initial
       ELSE IF IsFailure(maximum) THEN maximum
       ELSE [config EXCEPT !.connection =
                [maximumRetries |-> limit.value, initialDelayMs |-> initial.value,
                 maximumDelayMs |-> maximum.value]]

\* options.configDirectory
ConfigDirectory == <<"/", "c">>

\* no configuration has been loaded
Pending == [pending |-> TRUE]

\* loadConfiguration from `if (fileConfig.logging)` on: the sections of the
\* file applied in turn to the configuration made from the environment
applySections(initial, fromFile) ==
    LET logged == IF fromFile.logging # Absent
                  THEN applyLoggingSection(initial, fromFile.logging, ConfigDirectory)
                  ELSE initial
        connected == IF ~IsFailure(logged) /\ fromFile.connection # Absent
                     THEN applyConnectionSection(logged, fromFile.connection)
                     ELSE logged
    IN IF IsFailure(connected) \/ fromFile.pluginDirectories = Absent THEN connected
       ELSE [connected EXCEPT !.pluginDirectories =
                [k \in DOMAIN fromFile.pluginDirectories.items |->
                    PathResolve(ConfigDirectory, fromFile.pluginDirectories.items[k])]]

\* loadConfiguration(options): the configuration returned, or the error thrown
loadConfiguration(env, file) ==
    LET environment == loadEnvironment(env)
        fromFile == readConfigurationFile(file)
    IN IF IsFailure(environment) THEN environment
       ELSE IF IsFailure(fromFile) THEN fromFile
       ELSE applySections([token |-> environment.token,
                           logLevel |-> environment.logLevel,
                           logFilePath |-> environment.logFilePath,
                           pluginDirectories |-> <<>>,
                           connection |-> environment.connection],
                          fromFile)

\* index.js, bootstrap: loadConfiguration() is awaited
LoadConfiguration ==
    /\ configuration = Pending
    /\ configuration' = loadConfiguration(processEnv, fileConfig)
    /\ UNCHANGED <<processEnv, fileConfig>>
    /\ UNCHANGED <<supVars, pmVars, coreVars, budget>>

\* ------------------------------------------------ ConnectionSupervisor.js
\* the configurations a supervisor is constructed with
Configurations ==
    { [retries |-> n, initial |-> 100, maximum |-> 1000] : n \in -1..MaxRetries }
    \cup { [retries |-> n, initial |-> 300, maximum |-> 500] : n \in {-1, MaxRetries} }
    \cup { [retries |-> -1, initial |-> 300, maximum |-> 200] }

\* connect() without its single-flight test
NoSingleFlight == FALSE

\* connect(): "if (this.connectPromise)"
ConnectInProgress == connectPromise # 0

\* performLogin(): the while condition
WhileGuard(retries, attempt) == retries < 0 \/ attempt <= retries

\* a catch block that gives up whatever the sign of maximumRetries
RetriesExhaustedIgnoringSign(retries, attempt) == attempt >= retries

\* a catch block that gives up one failure too late
RetriesExhaustedTooLate(retries, attempt) == retries >= 0 /\ attempt > retries + 1

\* performLogin(): the condition of "throw error" in the catch block
RetriesExhausted(retries, attempt) == retries >= 0 /\ attempt >= retries

\* a backoff that doubles without a ceiling
NextDelayUncapped(delay, maximum) == delay * 2

\* performLogin(): delay = Math.min(delay * 2, this.maximumDelayMs)
NextDelay(delay, maximum) == Min(delay * 2, maximum)

\* a scheduleReconnect whose timeout is always zero
ReconnectAtOnce(immediate) == 0

\* scheduleReconnect(): options.immediate ? 0 : this.initialDelayMs
ReconnectDelay(immediate) == IF immediate THEN 0 ELSE initialDelayMs

\* scheduleReconnect() without its debounce test
NoDebounce == FALSE

\* scheduleReconnect(): "if (this.activeTimer)"
TimerPending == activeTimer # 0

Settled(phase) == phase \in {"resolved", "rejected"}

Running(l) == loops[l].phase \in {"login", "wait"}

RunningLoops == { l \in DOMAIN loops : Running(l) }

\* One turn of the while loop of performLogin for loop record lp, entered
\* with this.currentAttempt = attempt: either the next login is issued or the
\* loop is left and the async function returns.
LoopTurn(lp, attempt) ==
    IF WhileGuard(maximumRetries, attempt)
    THEN [lp EXCEPT !.phase = "login", !.logins = @ + 1]
    ELSE [lp EXCEPT !.phase = "resolved"]

\* the counter advanced twice per turn
AttemptCountedTwice(attempt) ==
    IF WhileGuard(maximumRetries, attempt) THEN attempt + 2 ELSE attempt

\* this.currentAttempt after one turn of the while loop entered with `attempt`
AttemptAfterTurn(attempt) ==
    IF WhileGuard(maximumRetries, attempt) THEN attempt + 1 ELSE attempt

NewLoop ==
    [phase |-> "wait", delay |-> initialDelayMs, logins |-> 0,
     waits |-> <<>>, error |-> 0]

\* the frames of connect() and performLogin calls that are still being awaited
PendingCalls == { c \in DOMAIN calls : calls[c].outcome = "pending" }

AwaitedLoops ==
    { l \in DOMAIN loops :
        Running(l) \/ l = connectPromise \/ \E c \in PendingCalls : calls[c].loop = l }

\* connect(), up to its await, called by `via` (the frames of calls that have
\* returned are dropped when a new performLogin starts)
connect(via) ==
    IF ConnectInProgress
    THEN /\ calls' = (FreeId(calls) :>
                [loop |-> connectPromise, owner |-> FALSE, via |-> via,
                 joined |-> RunningLoops, outcome |-> "pending", error |-> 0])
                @@ calls
         /\ UNCHANGED <<currentAttempt, connectPromise, loops>>
    ELSE LET keptLoops == Restrict(loops, AwaitedLoops)
             keptCalls == Restrict(calls, PendingCalls)
             l == FreeId(keptLoops)
         IN  /\ currentAttempt' = AttemptAfterTurn(0)
             /\ loops' = (l :> LoopTurn(NewLoop, 0)) @@ keptLoops
             /\ connectPromise' = l
             /\ calls' = (FreeId(keptCalls) :>
                    [loop |-> l, owner |-> TRUE, via |-> via,
                     joined |-> RunningLoops, outcome |-> "pending", error |-> 0])
                    @@ keptCalls

\* connect() called from outside (DicecordCore.start or any other holder)
Connect ==
    /\ budget.connects > 0
    /\ budget' = [budget EXCEPT !.connects = @ - 1]
    /\ connect([timer |-> 0, destroyed |-> FALSE])
    /\ UNCHANGED <<maximumRetries, initialDelayMs, maximumDelayMs, activeTimer,
                   timers, reconnects, session>>
    /\ UNCHANGED <<pmVars, coreVars>>
    /\ UNCHANGED cfgVars

\* performLogin of loop l returns or throws: connect() resumes after
\* "await this.connectPromise", runs its finally block, and every caller that
\* holds the promise sees the outcome
Settle(l, phase, error) ==
    /\ loops' = [loops EXCEPT ![l].phase = phase, ![l].error = error]
    /\ calls' = [c \in DOMAIN calls |->
            IF calls[c].loop = l
            THEN [calls[c] EXCEPT !.outcome = phase, !.error = error]
            ELSE calls[c]]
    /\ connectPromise' =
            IF \E c \in DOMAIN calls : calls[c].loop = l /\ calls[c].owner
            THEN 0 ELSE connectPromise

\* "await this.client.login(this.token)" resolves: performLogin returns
LoginResolves(l) ==
    /\ l \in DOMAIN loops
    /\ loops[l].phase = "login"
    /\ Settle(l, "resolved", 0)
    /\ session' = IF session = "none" THEN "loggedIn" ELSE session
    /\ UNCHANGED <<maximumRetries, initialDelayMs, maximumDelayMs, currentAttempt,
                   activeTimer, timers, reconnects>>
    /\ UNCHANGED <<pmVars, coreVars, budget>>
    /\ UNCHANGED cfgVars

\* "await this.client.login(this.token)" rejects: the catch block
loginRejects(l) ==
    /\ l \in DOMAIN loops
    /\ loops[l].phase = "login"
    /\ IF RetriesExhausted(maximumRetries, currentAttempt)
       THEN Settle(l, "rejected", currentAttempt)
       ELSE /\ loops' = [loops EXCEPT ![l].phase = "wait",
                                      ![l].waits = Append(@, loops[l].delay)]
            /\ UNCHANGED <<calls, connectPromise>>
    /\ UNCHANGED <<maximumRetries, initialDelayMs, maximumDelayMs, currentAttempt,
                   activeTimer, timers, reconnects, session>>
    /\ UNCHANGED <<pmVars, coreVars>>
    /\ UNCHANGED cfgVars

\* a login rejects; a loop whose retries are unlimited is allowed
\* MaxAttempts failures
LoginRejects(l) ==
    /\ maximumRetries >= 0 \/ currentAttempt < MaxAttempts
    /\ loginRejects(l)
    /\ UNCHANGED budget

\* login is a stub that rejects its first budget.stub calls and resolves the
\* next one: the call made by loop l, the only loop, resolves
StubLoginResolves(l) ==
    /\ l \in DOMAIN loops
    /\ loops[l].logins > budget.stub
    /\ LoginResolves(l)

\* the stub rejects the call made by loop l
StubLoginRejects(l) ==
    /\ l \in DOMAIN loops
    /\ loops[l].logins <= budget.stub
    /\ loginRejects(l)
    /\ UNCHANGED budget

\* the timeout of wait(delay) fires: the delay doubles and the loop turns;
\* a loop whose while condition is false returns without a login
WaitElapses(l) ==
    /\ l \in DOMAIN loops
    /\ loops[l].phase = "wait"
    /\ LET turned == LoopTurn([loops[l] EXCEPT
                         !.delay = NextDelay(@, maximumDelayMs)], currentAttempt)
       IN IF turned.phase = "resolved"
          THEN /\ Settle(l, "resolved", 0)
               /\ UNCHANGED currentAttempt
          ELSE /\ loops' = [loops EXCEPT ![l] = turned]
               /\ currentAttempt' = AttemptAfterTurn(currentAttempt)
               /\ UNCHANGED <<calls, connectPromise>>
    /\ UNCHANGED <<maximumRetries, initialDelayMs, maximumDelayMs,
                   activeTimer, timers, reconnects, session>>
    /\ UNCHANGED <<pmVars, coreVars, budget>>
    /\ UNCHANGED cfgVars

\* the handle setTimeout returns: one no pending timeout has
FreeHandle ==
    CHOOSE i \in 1..(Cardinality(timers) + 1) :
        /\ \A t \in timers : t.id # i
        /\ \A j \in 1..(i - 1) : \E t \in timers : t.id = j

\* scheduleReconnect(options)
scheduleReconnect(immediate) ==
    IF TimerPending
    THEN UNCHANGED <<activeTimer, timers, budget>>
    ELSE /\ budget.signals > 0
         /\ budget' = [budget EXCEPT !.signals = @ - 1]
         /\ timers' = timers \cup
                {[id |-> FreeHandle, delay |-> ReconnectDelay(immediate)]}
         /\ activeTimer' = FreeHandle

\* the handlers of registerSupervisionHandlers that schedule a reconnection
Signal(kind) ==
    /\ scheduleReconnect(kind = "invalidated")
    /\ UNCHANGED <<maximumRetries, initialDelayMs, maximumDelayMs, currentAttempt,
                   connectPromise, loops, calls, reconnects, session>>
    /\ UNCHANGED <<pmVars, coreVars>>
    /\ UNCHANGED cfgVars

\* the timeout callback of scheduleReconnect, and forceReconnect up to
\* "await this.client.destroy()"
TimerFires(t) ==
    /\ t \in timers
    /\ timers' = timers \ {t}
    /\ activeTimer' = 0
    /\ reconnects' = reconnects \cup {[timer |-> t.id, delay |-> t.delay]}
    /\ session' = "none"
    /\ UNCHANGED <<maximumRetries, initialDelayMs, maximumDelayMs, currentAttempt,
                   connectPromise, loops, calls>>
    /\ UNCHANGED <<pmVars, coreVars, budget>>
    /\ UNCHANGED cfgVars

\* a forceReconnect that gives up when destroy fails
DestroyFailureAborts(r, ok) ==
    /\ r \in reconnects
    /\ IF ok THEN connect([timer |-> r.timer, destroyed |-> ok])
             ELSE UNCHANGED <<currentAttempt, connectPromise, loops, calls>>
    /\ reconnects' = reconnects \ {r}
    /\ UNCHANGED <<maximumRetries, initialDelayMs, maximumDelayMs, activeTimer,
                   timers, session>>
    /\ UNCHANGED <<pmVars, coreVars, budget>>
    /\ UNCHANGED cfgVars

\* forceReconnect after destroy settled (a failure is logged): connect()
DestroySettles(r, ok) ==
    /\ r \in reconnects
    /\ connect([timer |-> r.timer, destroyed |-> ok])
    /\ reconnects' = reconnects \ {r}
    /\ UNCHANGED <<maximumRetries, initialDelayMs, maximumDelayMs, activeTimer,
                   timers, session>>
    /\ UNCHANGED <<pmVars, coreVars, budget>>
    /\ UNCHANGED cfgVars

\* clear() that forgets the slot but leaves the timeout with the runtime
clearSlotOnly ==
    /\ activeTimer' = 0
    /\ UNCHANGED timers

\* clear()
clear ==
    IF TimerPending
    THEN /\ timers' = { t \in timers : t.id # activeTimer }
         /\ activeTimer' = 0
    ELSE UNCHANGED <<activeTimer, timers>>

\* clear() called from outside
Clear ==
    /\ clear
    /\ UNCHANGED <<maximumRetries, initialDelayMs, maximumDelayMs, currentAttempt,
                   connectPromise, loops, calls, reconnects, session>>
    /\ UNCHANGED <<pmVars, coreVars, budget>>
    /\ UNCHANGED cfgVars

SignalKinds == {"shardDisconnect", "shardError", "invalidated"}

SupervisorStep ==
    \/ Connect
    \/ \E l \in DOMAIN loops : LoginResolves(l)
    \/ \E l \in DOMAIN loops : LoginRejects(l)
    \/ \E l \in DOMAIN loops : WaitElapses(l)
    \/ \E k \in SignalKinds : Signal(k)
    \/ \E t \in timers : TimerFires(t)
    \/ \E r \in reconnects, ok \in BOOLEAN : DestroySettles(r, ok)
    \/ Clear

\* ------------------------------------------------------ PluginContract.js
SUPPORTED_PLUGIN_API_VERSION == "1.0.0"

HookNames == {"onLoad", "onActivate", "onDeactivate", "onDispose"}

\* a semantic version is a triple; an optional bound that is absent is <<>>
VersionLeq(a, b) ==
    \/ a[1] < b[1]
    \/ a[1] = b[1] /\ a[2] < b[2]
    \/ a[1] = b[1] /\ a[2] = b[2] /\ a[3] <= b[3]

GoodHooks == [h \in HookNames |-> "function"]

NoCompatibility == [declared |-> FALSE, minimum |-> <<>>, maximum |-> <<>>]

Range(lo, hi) == [declared |-> TRUE, minimum |-> lo, maximum |-> hi]

Descriptor(name, version) ==
    [name |-> name, version |-> version, apiVersion |-> "1.0.0",
     compatibility |-> NoCompatibility, hooks |-> GoodHooks,
     unknownField |-> FALSE, events |-> <<>>]

Handler(eventName, type) == [eventName |-> eventName, type |-> type]

\* the descriptors handed to register
Descriptors ==
    { [Descriptor("dice", "1.0.0") EXCEPT
          !.events = <<Handler("messageCreate", "function")>>,
          !.compatibility = Range(<<1, 0, 0>>, <<2, 0, 0>>)],
      [Descriptor("dice", "2.0.0") EXCEPT
          !.compatibility = Range(<<>>, <<>>)],
      Descriptor("echo", "1.0.0"),
      [Descriptor("dice", "1.0.0") EXCEPT
          !.hooks = [GoodHooks EXCEPT !["onDispose"] = "undefined"]],
      [Descriptor("echo", "1.0.0") EXCEPT
          !.hooks = [GoodHooks EXCEPT !["onLoad"] = "string"]],
      [Descriptor("roll", "1.0.0") EXCEPT !.unknownField = TRUE],
      Descriptor("", "1.0.0"),
      [Descriptor("roll", "1.0.0") EXCEPT
          !.events = <<Handler("messageCreate", "string")>>],
      [Descriptor("roll", "1.0.0") EXCEPT !.apiVersion = "2.0.0"],
      [Descriptor("roll", "1.0.0") EXCEPT
          !.compatibility = Range(<<2, 0, 0>>, <<>>)],
      [Descriptor("roll", "2.0.0") EXCEPT
          !.compatibility = Range(<<>>, <<1, 1, 9>>)] }

\* pluginDescriptorSchema.parse succeeds
ShapeValid(d) ==
    /\ d.name # ""
    /\ d.version # ""
    /\ d.apiVersion # ""
    /\ \A h \in HookNames : d.hooks[h] = "function"
    /\ ~d.unknownField
    /\ \A k \in DOMAIN d.events :
          d.events[k].type = "function"

\* validatePluginDescriptor: "validation", "apiVersion" or "ok"
validatePluginDescriptor(d) ==
    IF ~ShapeValid(d) THEN "validation"
    ELSE IF d.apiVersion # SUPPORTED_PLUGIN_API_VERSION THEN "apiVersion"
    ELSE "ok"

\* -------------------------------------------------------- PluginManager.js
\* this.coreVersion
coreVersion == <<1, 2, 0>>

\* register: the identity derived from the manifest
Identity(d) == d.name \o "@" \o d.version

\* a duplicate test that compares the name with the identity
RegisteredByName(identity) ==
    \E i \in DOMAIN plugins : plugins[i].name = identity

\* register: this.plugins.find((plugin) => plugin.identity === identity)
IsRegistered(identity) ==
    \E i \in DOMAIN plugins : plugins[i].identity = identity

\* a compatibility test that looks at the lower bound only
CompatibleAboveMinimum(d) ==
    \/ ~d.compatibility.declared
    \/ d.compatibility.minimum = <<>>
    \/ VersionLeq(d.compatibility.minimum, coreVersion)

\* assertCompatibility does not throw
Compatible(d) ==
    \/ ~d.compatibility.declared
    \/ /\ d.compatibility.minimum = <<>>
       /\ d.compatibility.maximum = <<>>
    \/ /\ d.compatibility.minimum # <<>> =>
              VersionLeq(d.compatibility.minimum, coreVersion)
       /\ d.compatibility.maximum # <<>> =>
              VersionLeq(coreVersion, d.compatibility.maximum)

\* register up to its first statement with an effect: how the call ends
RegisterOutcome(d) ==
    LET parsed == validatePluginDescriptor(d)
    IN IF parsed # "ok" THEN parsed
    ELSE IF IsRegistered(Identity(d)) THEN "duplicate"
    ELSE IF ~Compatible(d) THEN "incompatible"
    ELSE "ok"

\* the descriptors register accepts on an empty registry
Installable ==
    { d \in Descriptors : validatePluginDescriptor(d) = "ok" /\ Compatible(d) }

Hook(name, identity) == [t |-> "hook", n |-> name, id |-> identity]

Emit(name, identity) == [t |-> "emit", n |-> name, id |-> identity]

Throw(kind) == [t |-> "throw", n |-> kind, id |-> ""]

\* a getPluginStorage that hands every identity the Map created first
getSharedStorage(storage, identity) ==
    IF identity \in DOMAIN storage THEN storage
    ELSE (identity :> [id |-> 1,
                       entries |-> UNION { storage[x].entries : x \in DOMAIN storage }])
         @@ storage

\* getPluginStorage(identity): this.pluginStorage after the call; the Map it
\* returns is the one this.pluginStorage holds for the identity.  A Map is
\* an object [id, entries]
getPluginStorage(storage, identity) ==
    IF identity \in DOMAIN storage THEN storage
    ELSE (identity :> [id |-> Cardinality(DOMAIN storage) + 1, entries |-> {}])
         @@ storage

\* an entry whose onLoad settled with a status it had before
KeepStatus(entry, ok) == [entry EXCEPT !.loading = FALSE]

\* register after "await entry.hooks.onLoad(loadContext)"
Loaded(entry, ok) ==
    [entry EXCEPT !.loading = FALSE,
                  !.status = IF ok THEN "loaded" ELSE "error"]

\* register(descriptor) up to "await entry.hooks.onLoad(loadContext)"
register(d) ==
    LET outcome == RegisterOutcome(d)
    IN IF outcome = "ok"
       THEN /\ Len(plugins) < budget.plugins
            /\ pluginStorage' = getPluginStorage(pluginStorage, Identity(d))
            /\ plugins' = Append(plugins,
                    [identity |-> Identity(d), name |-> d.name,
                     version |-> d.version,
                     events |-> [k \in DOMAIN d.events |-> d.events[k].eventName],
                     status |-> "registered", eventBindings |-> <<>>,
                     loading |-> TRUE,
                     loadStorage |-> pluginStorage'[Identity(d)].id])
            /\ journal' = <<Emit("registered", Identity(d)),
                            Hook("onLoad", Identity(d))>>
       ELSE /\ journal' = <<Throw(outcome)>>
            /\ UNCHANGED <<plugins, pluginStorage>>

Register(d) ==
    /\ register(d)
    /\ UNCHANGED <<listeners, passes>>
    /\ UNCHANGED <<supVars, coreVars, budget>>
    /\ UNCHANGED cfgVars

\* onLoad settles: register returns the entry
LoadSettles(i, ok) ==
    /\ i \in DOMAIN plugins
    /\ plugins[i].loading
    /\ plugins' = [plugins EXCEPT ![i] = Loaded(@, ok)]
    /\ journal' = <<Emit(IF ok THEN "loaded" ELSE "loadFailed", plugins[i].identity)>>
    /\ UNCHANGED <<listeners, passes, pluginStorage>>
    /\ UNCHANGED <<supVars, coreVars, budget>>
    /\ UNCHANGED cfgVars

\* list()
list ==
    [i \in DOMAIN plugins |->
        [identity |-> plugins[i].identity,
         manifest |-> [name |-> plugins[i].name, version |-> plugins[i].version],
         status |-> plugins[i].status]]

\* the objects a plugin can be handed as `client`: what each can do
Capabilities(client) ==
    CASE client = "client" -> {"on", "off", "login", "destroy"}
      [] client = "facade" -> {"sendMessage", "getGuild"}
      [] client = "emptyFacade" -> {"sendMessage"}
      [] OTHER -> {}

\* createClientFacade(client)
createClientFacade(client) ==
    IF client = "none" THEN "emptyFacade" ELSE "facade"

\* what client.channels.fetch(channelId) gives: a guild text channel, a
\* direct-message channel, null, or a rejection
Channels == {"text", "dm", "null", "rejects"}

Sent(channel, identity) == [t |-> "send", n |-> channel, id |-> identity]

\* a sendMessage that sends to whatever channel was fetched
sendMessageToAny(facade, channel, identity) ==
    CASE facade = "emptyFacade" -> <<Throw("notReady")>>
      [] channel = "rejects" -> <<Throw("fetch")>>
      [] channel = "null" -> <<Throw("directMessage")>>
      [] OTHER -> <<Sent(channel, identity)>>

\* facade.sendMessage(channelId, payload) called by the code of plugin
\* `identity`: what the call does, a send on the channel or the error thrown
sendMessage(facade, channel, identity) ==
    CASE facade = "emptyFacade" -> <<Throw("notReady")>>
      [] channel = "rejects" -> <<Throw("fetch")>>
      [] channel \in {"null", "dm"} -> <<Throw("directMessage")>>
      [] OTHER -> <<Sent(channel, identity)>>

\* the listener identifiers in use
ListenersInUse ==
    { listeners[k].listener : k \in DOMAIN listeners }
    \cup UNION { { plugins[i].eventBindings[k].listener :
                      k \in DOMAIN plugins[i].eventBindings } : i \in DOMAIN plugins }

\* the closure bindEvent creates
FreshListener ==
    CHOOSE n \in 1..(Cardinality(ListenersInUse) + 1) :
        n \notin ListenersInUse /\ \A m \in 1..(n - 1) : m \in ListenersInUse

\* bindEvent registers the listener (it returns noop otherwise)
CanBind(client, eventName, handlerType) ==
    /\ client # "none"
    /\ "on" \in Capabilities(client)
    /\ eventName # ""
    /\ handlerType = "function"

\* bindEvent(plugin, client, eventName, handler, pluginContext): the state
\* [plugins, listeners] after the call on state st for plugin i
bindEvent(st, i, client, eventName, handlerType) ==
    IF ~CanBind(client, eventName, handlerType) THEN st
    ELSE LET used == { st.listeners[k].listener : k \in DOMAIN st.listeners }
                     \cup UNION { { st.plugins[j].eventBindings[k].listener :
                            k \in DOMAIN st.plugins[j].eventBindings } :
                            j \in DOMAIN st.plugins }
             w == CHOOSE n \in 1..(Cardinality(used) + 1) :
                      n \notin used /\ \A m \in 1..(n - 1) : m \in used
         IN [plugins |-> [st.plugins EXCEPT ![i].eventBindings =
                    Append(@, [eventName |-> eventName, listener |-> w])],
             listeners |-> Append(st.listeners,
                    [eventName |-> eventName, listener |-> w, plugin |-> i])]

\* bindDeclaredEvents(plugin, pluginContext): pluginContext.client is the
\* facade built by createPluginContext
RECURSIVE bindDeclaredFrom(_, _, _, _)
bindDeclaredFrom(st, i, facade, k) ==
    IF k > Len(st.plugins[i].events) THEN st
    ELSE bindDeclaredFrom(
            bindEvent(st, i, facade, st.plugins[i].events[k], "function"),
            i, facade, k + 1)

bindDeclaredEvents(st, i, contextClient) ==
    bindDeclaredFrom(st, i, createClientFacade(contextClient), 1)

\* a removeBinding that takes off every listener the plugin has for the event
removeBindingsOfEvent(st, i, client, eventName, listener) ==
    LET Other(b) == b.eventName # eventName
        NotIts(b) == ~(b.eventName = eventName /\ b.plugin = i)
    IN [plugins |-> [st.plugins EXCEPT ![i].eventBindings = SelectSeq(@, Other)],
        listeners |-> SelectSeq(st.listeners, NotIts)]

\* a removeBinding that drops the list entry and leaves the subscription live
removeFromListOnly(st, i, client, eventName, listener) ==
    LET Other(b) == b.listener # listener
    IN [st EXCEPT !.plugins[i].eventBindings = SelectSeq(@, Other)]

\* removeBinding(plugin, client, eventName, listener)
removeBinding(st, i, client, eventName, listener) ==
    IF client = "none" THEN st
    ELSE LET Other(b) == b.listener # listener
             NotIt(b) == ~(b.eventName = eventName /\ b.listener = listener)
         IN [plugins |-> [st.plugins EXCEPT ![i].eventBindings =
                    SelectSeq(@, Other)],
             listeners |-> IF "off" \in Capabilities(client)
                           THEN SelectSeq(st.listeners, NotIt)
                           ELSE st.listeners]

\* a teardown that leaves everything in place
teardownNothing(st, i, client) == st

\* teardownEvents(plugin, client): the loop runs over the list as it was
RECURSIVE teardownFrom(_, _, _, _, _)
teardownFrom(st, i, client, bindings, k) ==
    IF k > Len(bindings) THEN st
    ELSE teardownFrom(
            removeBinding(st, i, client, bindings[k].eventName, bindings[k].listener),
            i, client, bindings, k + 1)

\* a teardown that leaves out the final "plugin.eventBindings = []"
teardownWithoutClearing(st, i, client) ==
    teardownFrom(st, i, client, st.plugins[i].eventBindings, 1)

teardownEvents(st, i, client) ==
    IF Len(st.plugins[i].eventBindings) = 0 THEN st
    ELSE LET after == teardownFrom(st, i, client, st.plugins[i].eventBindings, 1)
         IN [after EXCEPT !.plugins[i].eventBindings = <<>>]

HookOf(kind) ==
    CASE kind = "activate" -> "onActivate"
      [] kind = "deactivate" -> "onDeactivate"
      [] kind = "dispose" -> "onDispose"

\* a pass that takes up every plugin it comes to
EligibleWhateverStatus(kind, status) == TRUE

\* the test each pass makes before it takes a plugin up
Eligible(kind, status) ==
    CASE kind = "activate" -> status = "loaded"
      [] kind = "deactivate" -> status = "active"
      [] kind = "dispose" -> status # "disposed"

\* a pass that looks for its next plugin from the head of the list again
NextEligibleFromHead(ps, kind, from) ==
    IF \E j \in DOMAIN ps : Eligible(kind, ps[j].status)
    THEN CHOOSE j \in DOMAIN ps :
            /\ Eligible(kind, ps[j].status)
            /\ \A m \in 1..(j - 1) : ~Eligible(kind, ps[m].status)
    ELSE 0

\* the next plugin a pass takes up, from index `from` on; 0 when the loop ends
RECURSIVE NextEligible(_, _, _)
NextEligible(ps, kind, from) ==
    IF from > Len(ps) THEN 0
    ELSE IF Eligible(kind, ps[from].status) THEN from
    ELSE NextEligible(ps, kind, from + 1)

\* the entries that are active when deactivateAll is called (kept with the
\* pass to tell what it found from what it left)
ActiveAtCall(kind) ==
    IF kind = "deactivate"
    THEN { i \in DOMAIN plugins : plugins[i].status = "active" }
    ELSE {}

\* activateAll / deactivateAll / disposeAll up to the first awaited hook;
\* a pass that finds no plugin to take up returns at once
startPass(kind, client, owner) ==
    LET i == NextEligible(plugins, kind, 1)
    IN IF i = 0
       THEN /\ journal' = <<>>
            /\ UNCHANGED <<plugins, passes, pluginStorage>>
       ELSE /\ pluginStorage' = getPluginStorage(pluginStorage, plugins[i].identity)
            /\ passes' = (FreeId(passes) :>
                    [kind |-> kind, at |-> i, client |-> client, owner |-> owner,
                     was |-> ActiveAtCall(kind),
                     storage |-> pluginStorage'[plugins[i].identity].id])
                    @@ passes
            /\ UNCHANGED plugins
            /\ journal' = <<Hook(HookOf(kind), plugins[i].identity)>>

\* a pass called on the manager from outside
StartPass(kind, client) ==
    /\ budget.passes > 0
    /\ budget' = [budget EXCEPT !.passes = @ - 1]
    /\ startPass(kind, client, 0)
    /\ UNCHANGED listeners
    /\ UNCHANGED <<supVars, coreVars>>
    /\ UNCHANGED cfgVars

\* the statements of a pass after its awaited hook settled, for plugin i:
\* the state [plugins, listeners] they leave
AfterHook(kind, i, client, ok) ==
    LET st == [plugins |-> plugins, listeners |-> listeners]
        set(status) == [st EXCEPT !.plugins[i].status = status]
    IN CASE kind = "activate" /\ ok ->
                bindDeclaredEvents(set("active"), i, client)
         [] kind = "activate" /\ ~ok ->
                teardownEvents(set("error"), i, client)
         [] kind = "deactivate" ->
                teardownEvents(set(IF ok THEN "loaded" ELSE "error"), i, client)
         [] kind = "dispose" ->
                set(IF ok THEN "disposed" ELSE "error")

\* a pass that reports every hook as a success
NotificationOfSuccess(kind, ok) ==
    CASE kind = "activate" -> "activated"
      [] kind = "deactivate" -> "deactivated"
      [] kind = "dispose" -> "disposed"

Notification(kind, ok) ==
    CASE kind = "activate" -> IF ok THEN "activated" ELSE "activationFailed"
      [] kind = "deactivate" -> IF ok THEN "deactivated" ELSE "deactivationFailed"
      [] kind = "dispose" -> IF ok THEN "disposed" ELSE "disposeFailed"

\* DicecordCore.shutdown after "await this.deactivatePlugins()":
\* client.destroy() is called
shutdownDestroys(s) ==
    /\ shutdowns' = [shutdowns EXCEPT ![s].pc = "destroy",
                                      ![s].steps = @ \o <<"deactivated", "destroy">>]
    /\ session' = "none"

\* the awaited hook of pass p settles: the pass finishes with that plugin and
\* goes on to the next one, or returns to its caller
HookSettles(p, ok) ==
    /\ p \in DOMAIN passes
    /\ LET f == passes[p]
           st == AfterHook(f.kind, f.at, f.client, ok)
           j == NextEligible(st.plugins, f.kind, f.at + 1)
           told == <<Emit(Notification(f.kind, ok), plugins[f.at].identity)>>
       IN /\ listeners' = st.listeners
          /\ plugins' = st.plugins
          /\ IF j = 0
             THEN /\ passes' = Restrict(passes, DOMAIN passes \ {p})
                  /\ journal' = told
                  /\ UNCHANGED pluginStorage
                  /\ IF f.owner = 0
                     THEN UNCHANGED <<shutdowns, session>>
                     ELSE shutdownDestroys(f.owner)
             ELSE /\ pluginStorage' =
                        getPluginStorage(pluginStorage, plugins[j].identity)
                  /\ passes' = [passes EXCEPT
                        ![p].at = j,
                        ![p].storage = pluginStorage'[plugins[j].identity].id]
                  /\ journal' = Append(told,
                        Hook(HookOf(f.kind), plugins[j].identity))
                  /\ UNCHANGED <<shutdowns, session>>
    /\ UNCHANGED <<maximumRetries, initialDelayMs, maximumDelayMs, currentAttempt,
                   activeTimer, connectPromise, timers, loops, calls, reconnects>>
    /\ UNCHANGED <<isReady, readyFired, loggerClosed, budget>>
    /\ UNCHANGED cfgVars

\* createPluginContext: the client context.registerEvent binds on
ContextClient(kind, client) == IF kind = "dispose" THEN "none" ELSE client

\* the hook awaited by pass p calls context.registerEvent(eventName, handler)
PluginRegistersEvent(p, eventName) ==
    /\ p \in DOMAIN passes
    /\ budget.binds > 0
    /\ budget' = [budget EXCEPT !.binds = @ - 1]
    /\ LET st == bindEvent([plugins |-> plugins, listeners |-> listeners],
                           passes[p].at, ContextClient(passes[p].kind, passes[p].client),
                           eventName, "function")
       IN /\ plugins' = st.plugins
          /\ listeners' = st.listeners
    /\ journal' = <<>>
    /\ UNCHANGED <<passes, pluginStorage>>
    /\ UNCHANGED <<supVars, coreVars>>
    /\ UNCHANGED cfgVars

\* the function bindEvent returned to plugin i for its listener w on
\* eventName is called: removeBinding with the client bindEvent subscribed on
Unsubscribe(i, eventName, w) ==
    /\ i \in DOMAIN plugins
    /\ LET st == removeBinding([plugins |-> plugins, listeners |-> listeners],
                               i, "client", eventName, w)
       IN /\ plugins' = st.plugins
          /\ listeners' = st.listeners
    /\ journal' = <<>>
    /\ UNCHANGED <<passes, pluginStorage>>
    /\ UNCHANGED <<supVars, coreVars, budget>>
    /\ UNCHANGED cfgVars

\* plugin code calls context.client.sendMessage on a context that was built
\* with `client` as the connection of its base context
PluginSendsMessage(identity, client, channel) ==
    /\ "sendMessage" \in Capabilities(createClientFacade(client))
    /\ journal' = sendMessage(createClientFacade(client), channel, identity)
    /\ UNCHANGED <<plugins, listeners, passes, pluginStorage>>
    /\ UNCHANGED <<supVars, coreVars, budget>>
    /\ UNCHANGED cfgVars

\* plugin code calls context.storage.set(key, ...) on the Map its context
\* carries
PluginStores(map, key) ==
    /\ pluginStorage' = [x \in DOMAIN pluginStorage |->
            IF pluginStorage[x].id = map
            THEN [pluginStorage[x] EXCEPT !.entries = @ \cup {key}]
            ELSE pluginStorage[x]]
    /\ UNCHANGED <<plugins, listeners, passes, journal>>
    /\ UNCHANGED <<supVars, coreVars, budget>>
    /\ UNCHANGED cfgVars

PassKinds == {"activate", "deactivate", "dispose"}

EventNames == {"messageCreate"}

\* what a plugin's event handler does when it is invoked: it returns, it
\* throws, or (an async function) it returns a promise that rejects
HandlerOutcomes == {"returns", "throws", "rejects"}

\* the handler of a listener was invoked, and what it did
Invoked(eventName, identity, outcome) ==
    [t |-> "handler", n |-> eventName, id |-> identity, out |-> outcome]

Logged(eventName, identity) == [t |-> "log", n |-> eventName, id |-> identity]

Unhandled(eventName, identity) ==
    [t |-> "unhandledRejection", n |-> eventName, id |-> identity]

\* a listener that calls the handler without a try/catch
wrappedWithoutCatch(outcome, eventName, identity) ==
    [thrown |-> outcome = "throws",
     trace |-> <<Invoked(eventName, identity, outcome)>>
               \o (IF outcome = "rejects"
                   THEN <<Unhandled(eventName, identity)>> ELSE <<>>)]

\* the listener `wrapped` that bindEvent subscribes, called by the
\* connection object: whether it throws, and what it leaves behind
wrapped(outcome, eventName, identity) ==
    [thrown |-> FALSE,
     trace |-> <<Invoked(eventName, identity, outcome)>>
               \o (CASE outcome = "throws" -> <<Logged(eventName, identity)>>
                     [] outcome = "rejects" -> <<Unhandled(eventName, identity)>>
                     [] OTHER -> <<>>)]

\* client.emit(eventName): the listeners subscribed to the event are called
\* in the order of their subscription, from the k-th on; a listener that
\* throws ends the dispatch
RECURSIVE emitFrom(_, _, _)
emitFrom(eventName, outcomes, k) ==
    IF k > Len(listeners) THEN <<>>
    ELSE IF listeners[k].eventName # eventName
    THEN emitFrom(eventName, outcomes, k + 1)
    ELSE LET r == wrapped(outcomes[k], eventName,
                          plugins[listeners[k].plugin].identity)
         IN IF r.thrown
            THEN r.trace \o <<Throw("emit")>>
            ELSE r.trace \o emitFrom(eventName, outcomes, k + 1)

\* the connection object dispatches an event to its listeners
Dispatch(eventName, outcomes) ==
    /\ journal' = emitFrom(eventName, outcomes, 1)
    /\ UNCHANGED <<plugins, listeners, passes, pluginStorage, budget>>
    /\ UNCHANGED <<supVars, coreVars>>
    /\ UNCHANGED cfgVars

\* ---------------------------------------------------------- DicecordCore.js
\* a client that never reports ready
NeverReady == FALSE

\* start(): typeof this.client.isReady === "function" && this.client.isReady()
ClientIsReady == session = "ready"

\* the frame of a start() call that returned without connecting
Skipped ==
    [loop |-> 0, owner |-> FALSE, via |-> [timer |-> 0, destroyed |-> FALSE],
     joined |-> {}, outcome |-> "skipped", error |-> 0]

\* start()
Start ==
    /\ budget.connects > 0
    /\ budget' = [budget EXCEPT !.connects = @ - 1]
    /\ IF ClientIsReady
       THEN /\ calls' = (FreeId(calls) :> Skipped) @@ calls
            /\ UNCHANGED <<currentAttempt, connectPromise, loops>>
       ELSE connect([timer |-> 0, destroyed |-> FALSE])
    /\ UNCHANGED <<maximumRetries, initialDelayMs, maximumDelayMs, activeTimer,
                   timers, reconnects, session>>
    /\ UNCHANGED <<pmVars, coreVars>>
    /\ UNCHANGED cfgVars

\* the transport emits ready: the handler registerCoreEventHandlers installed
\* with once() runs the first time only
TransportReady ==
    /\ session = "loggedIn"
    /\ session' = "ready"
    /\ IF readyFired
       THEN UNCHANGED <<isReady, readyFired, plugins, passes, journal, pluginStorage>>
       ELSE /\ isReady' = TRUE
            /\ readyFired' = TRUE
            /\ startPass("activate", "client", 0)
    /\ UNCHANGED <<maximumRetries, initialDelayMs, maximumDelayMs, currentAttempt,
                   activeTimer, connectPromise, timers, loops, calls, reconnects>>
    /\ UNCHANGED <<listeners, loggerClosed, shutdowns, budget>>
    /\ UNCHANGED cfgVars

\* shutdown() up to its first await that has to wait: the hook of the first
\* active plugin, or client.destroy() when no plugin is active
shutdown ==
    LET s == Len(shutdowns) + 1
        idle == NextEligible(plugins, "deactivate", 1) = 0
    IN /\ isReady' = FALSE
       /\ clear
       /\ startPass("deactivate", "client", s)
       /\ shutdowns' = Append(shutdowns,
              [pc |-> IF idle THEN "destroy" ELSE "deactivate",
               steps |-> <<"clear", "deactivateAll">> \o
                         (IF idle THEN <<"deactivated", "destroy">> ELSE <<>>)])
       /\ session' = IF idle THEN "none" ELSE session

Shutdown ==
    /\ Len(shutdowns) < MaxShutdowns
    /\ shutdown
    /\ UNCHANGED <<maximumRetries, initialDelayMs, maximumDelayMs, currentAttempt,
                   connectPromise, loops, calls, reconnects>>
    /\ UNCHANGED <<listeners, readyFired, loggerClosed, budget>>
    /\ UNCHANGED cfgVars

\* "await this.client.destroy()" of shutdown call s settles: the logger is
\* closed and shutdown returns, or shutdown throws what destroy threw
ShutdownDestroySettles(s, ok) ==
    /\ s \in DOMAIN shutdowns
    /\ shutdowns[s].pc = "destroy"
    /\ shutdowns' = [shutdowns EXCEPT ![s].pc = IF ok THEN "done" ELSE "failed"]
    /\ loggerClosed' = (loggerClosed \/ ok)
    /\ UNCHANGED <<supVars, pmVars, isReady, readyFired, budget>>
    /\ UNCHANGED cfgVars

\* the constructor of ConnectionSupervisor
SupervisorInit ==
    /\ \E c \in Configurations :
          /\ maximumRetries = c.retries
          /\ initialDelayMs = c.initial
          /\ maximumDelayMs = c.maximum
    /\ currentAttempt = 0
    /\ activeTimer = 0
    /\ connectPromise = 0
    /\ timers = {}
    /\ loops = <<>>
    /\ calls = <<>>
    /\ reconnects = {}
    /\ session = "none"

\* the constructors of PluginManager and DicecordCore
HostInit ==
    /\ plugins = <<>>
    /\ listeners = <<>>
    /\ passes = <<>>
    /\ journal = <<>>
    /\ pluginStorage = <<>>
    /\ isReady = FALSE
    /\ readyFired = FALSE
    /\ loggerClosed = FALSE
    /\ shutdowns = <<>>
    /\ processEnv = [k \in {TOKEN_KEY} |-> Str(<<"t">>)]
    /\ fileConfig = Unreadable("ENOENT")
    /\ configuration = Pending

\* `stub` is the number of calls a login stub rejects before it resolves one
NoBudget ==
    [connects |-> 0, signals |-> 0, plugins |-> 0, passes |-> 0, binds |-> 0,
     stub |-> 0]

SupInit ==
    /\ SupervisorInit
    /\ HostInit
    /\ budget = [NoBudget EXCEPT !.connects = MaxConnects, !.signals = MaxSignals]

SupNext == SupervisorStep

\* the supervisor on its own, driven through its public methods
SpecSup == SupInit /\ [][SupNext]_vars

PmInit ==
    /\ SupervisorInit
    /\ maximumRetries = 0
    /\ initialDelayMs = 100
    /\ HostInit
    /\ budget = [NoBudget EXCEPT !.plugins = MaxPlugins, !.passes = MaxPasses,
                                 !.binds = MaxBinds]

PmNext ==
    \/ budget.passes = MaxPasses /\ \E d \in Installable : Register(d)
    \/ \E i \in DOMAIN plugins, ok \in BOOLEAN : LoadSettles(i, ok)
    \/ \E k \in {"activate", "deactivate"}, c \in {"client", "none"} : StartPass(k, c)
    \/ StartPass("dispose", "none")
    \/ \E p \in DOMAIN passes, ok \in BOOLEAN : HookSettles(p, ok)
    \/ \E p \in DOMAIN passes, e \in EventNames : PluginRegistersEvent(p, e)

\* the plugin manager on its own: plugins are registered, then passes are
\* called on it with a context that has the connection object or has none
SpecPm == PmInit /\ [][PmNext]_vars

RegInit ==
    /\ SupervisorInit
    /\ maximumRetries = 0
    /\ initialDelayMs = 100
    /\ HostInit
    /\ budget = [NoBudget EXCEPT !.plugins = RegPlugins, !.passes = RegPasses]

RegNext ==
    \/ \E d \in Descriptors : Register(d)
    \/ \E i \in DOMAIN plugins, ok \in BOOLEAN : LoadSettles(i, ok)
    \/ \E k \in PassKinds : StartPass(k, "client")
    \/ \E p \in DOMAIN passes, ok \in BOOLEAN : HookSettles(p, ok)

\* the registry of the plugin manager: registrations racing with the passes
\* the host makes over the plugins
SpecReg == RegInit /\ [][RegNext]_vars

HostCoreInit ==
    /\ SupervisorInit
    /\ maximumRetries = 2
    /\ initialDelayMs = 100
    /\ HostInit
    /\ budget = [NoBudget EXCEPT !.connects = HostConnects, !.signals = HostSignals,
                                 !.plugins = HostPlugins]

\* a shutdown() call has returned
Returned == \E s \in DOMAIN shutdowns : shutdowns[s].pc = "done"

\* no shutdown() call is under way
NoneUnderWay == \A s \in DOMAIN shutdowns : shutdowns[s].pc \in {"done", "failed"}

HostCoreNext ==
    \/ ~Returned /\ Start
    \/ ~Returned /\ \E l \in DOMAIN loops : LoginResolves(l)
    \/ ~Returned /\ \E l \in DOMAIN loops : LoginRejects(l)
    \/ ~Returned /\ \E l \in DOMAIN loops : WaitElapses(l)
    \/ ~Returned /\ TransportReady
    \/ ~Returned /\ \E k \in SignalKinds : Signal(k)
    \/ ~Returned /\ \E t \in timers : TimerFires(t)
    \/ ~Returned /\ \E r \in reconnects, ok \in BOOLEAN : DestroySettles(r, ok)
    \/ ~Returned /\ \E d \in Descriptors : Register(d)
    \/ ~Returned /\ \E i \in DOMAIN plugins, ok \in BOOLEAN : LoadSettles(i, ok)
    \/ \E p \in DOMAIN passes, ok \in BOOLEAN :
          (~Returned \/ passes[p].owner # 0) /\ HookSettles(p, ok)
    \/ NoneUnderWay /\ Shutdown
    \/ \E s \in DOMAIN shutdowns, ok \in BOOLEAN : ShutdownDestroySettles(s, ok)

\* the host from construction to shutdown: shutdown() is called when no other
\* shutdown() call is under way, and once a call has returned nothing happens
\* but further shutdown() calls
SpecHost == HostCoreInit /\ [][HostCoreNext]_vars

DownNext ==
    \/ ~Returned /\ Start
    \/ \E l \in DOMAIN loops : LoginResolves(l)
    \/ \E l \in DOMAIN loops : LoginRejects(l)
    \/ \E l \in DOMAIN loops : WaitElapses(l)
    \/ TransportReady
    \/ ~Returned /\ \E k \in SignalKinds : Signal(k)
    \/ \E t \in timers : TimerFires(t)
    \/ \E r \in reconnects, ok \in BOOLEAN : DestroySettles(r, ok)
    \/ NoneUnderWay /\ Shutdown
    \/ \E s \in DOMAIN shutdowns, ok \in BOOLEAN : ShutdownDestroySettles(s, ok)

\* the host without plugins, where the supervisor's pending work (a login, a
\* backoff wait, a reconnection timer, a destroy) goes on settling after a
\* shutdown() call has returned; the host makes no start() call and the
\* transport raises no signal once shutdown() has returned
SpecDown == HostCoreInit /\ [][DownNext]_vars

LifeInit ==
    /\ SupervisorInit
    /\ maximumRetries = 0
    /\ initialDelayMs = 100
    /\ HostInit
    /\ budget = [NoBudget EXCEPT !.plugins = LifePlugins, !.passes = LifePasses,
                                 !.binds = LifeBinds]

\* no pass has been called yet
Installing == budget.passes = LifePasses

LifeNext ==
    \/ Installing /\ \E d \in Installable : Register(d)
    \/ \E i \in DOMAIN plugins, ok \in BOOLEAN : LoadSettles(i, ok)
    \/ \E k \in {"activate", "deactivate"} : StartPass(k, "client")
    \/ \E p \in DOMAIN passes, ok \in BOOLEAN : HookSettles(p, ok)
    \/ \E p \in DOMAIN passes, e \in EventNames : PluginRegistersEvent(p, e)

\* the life of installed plugins: plugins are registered, then the host makes
\* its activateAll and deactivateAll passes on the connection object (an
\* onLoad may still be pending when a pass runs), with plugins subscribing
\* from their hooks
SpecLife == LifeInit /\ [][LifeNext]_vars

OverlapInit ==
    /\ SupervisorInit
    /\ maximumRetries = 0
    /\ initialDelayMs = 100
    /\ HostInit
    /\ budget = [NoBudget EXCEPT !.plugins = OverlapPlugins,
                                 !.passes = OverlapPasses, !.binds = OverlapBinds]

OverlapNext ==
    \/ budget.passes = OverlapPasses /\ \E d \in Installable : Register(d)
    \/ \E i \in DOMAIN plugins, ok \in BOOLEAN : LoadSettles(i, ok)
    \/ \E k \in {"activate", "deactivate"} : StartPass(k, "client")
    \/ \E p \in DOMAIN passes, ok \in BOOLEAN : HookSettles(p, ok)
    \/ \E p \in DOMAIN passes, e \in EventNames : PluginRegistersEvent(p, e)

\* the life of installed plugins with enough passes for an activateAll to
\* run into a deactivateAll that follows an earlier activateAll
SpecOverlap == OverlapInit /\ [][OverlapNext]_vars

DisposeInit ==
    /\ SupervisorInit
    /\ maximumRetries = 0
    /\ initialDelayMs = 100
    /\ HostInit
    /\ budget = [NoBudget EXCEPT !.plugins = DisposePlugins,
                                 !.passes = DisposePasses, !.binds = DisposeBinds]

DisposeNext ==
    \/ budget.passes = DisposePasses /\ \E d \in Installable : Register(d)
    \/ \E i \in DOMAIN plugins, ok \in BOOLEAN : LoadSettles(i, ok)
    \/ StartPass("activate", "client")
    \/ StartPass("dispose", "none")
    \/ \E p \in DOMAIN passes, ok \in BOOLEAN : HookSettles(p, ok)
    \/ \E p \in DOMAIN passes, e \in EventNames : PluginRegistersEvent(p, e)

\* installed plugins are activated on the connection object and then disposed
\* of by a disposeAll() call on the manager
SpecDispose == DisposeInit /\ [][DisposeNext]_vars

DispatchInit ==
    /\ SupervisorInit
    /\ maximumRetries = 0
    /\ initialDelayMs = 100
    /\ HostInit
    /\ budget = [NoBudget EXCEPT !.plugins = DispatchPlugins,
                                 !.passes = DispatchPasses, !.binds = DispatchBinds]

DispatchNext ==
    \/ budget.passes = DispatchPasses /\ \E d \in Installable : Register(d)
    \/ \E i \in DOMAIN plugins, ok \in BOOLEAN : LoadSettles(i, ok)
    \/ StartPass("activate", "client")
    \/ \E p \in DOMAIN passes, ok \in BOOLEAN : HookSettles(p, ok)
    \/ \E p \in DOMAIN passes, e \in EventNames : PluginRegistersEvent(p, e)
    \/ \E e \in EventNames, o \in [DOMAIN listeners -> HandlerOutcomes] :
            Dispatch(e, o)

\* plugins subscribe from their onActivate hooks and the connection object
\* dispatches events to the subscribed listeners
SpecDispatch == DispatchInit /\ [][DispatchNext]_vars

StubInit ==
    /\ SupervisorInit
    /\ maximumRetries = -1
    /\ HostInit
    /\ \E f \in 0..StubFailures :
          budget = [NoBudget EXCEPT !.connects = StubConnects, !.stub = f]

\* connect() is called, and called again while the first call is awaited
StubNext ==
    \/ (loops = <<>> \/ ConnectInProgress) /\ Connect
    \/ \E l \in DOMAIN loops : StubLoginResolves(l)
    \/ \E l \in DOMAIN loops : StubLoginRejects(l)
    \/ \E l \in DOMAIN loops : WaitElapses(l)

\* a supervisor with unlimited retries whose client.login is a stub; every
\* login call settles and every timeout of wait() fires
SpecStub ==
    /\ StubInit
    /\ [][StubNext]_vars
    /\ WF_vars(\E l \in DOMAIN loops : StubLoginResolves(l))
    /\ WF_vars(\E l \in DOMAIN loops : StubLoginRejects(l))
    /\ WF_vars(\E l \in DOMAIN loops : WaitElapses(l))

HookInit ==
    /\ SupervisorInit
    /\ maximumRetries = 0
    /\ initialDelayMs = 100
    /\ HostInit
    /\ budget = [NoBudget EXCEPT !.plugins = HookPlugins, !.passes = HookPasses]

HookNext ==
    \/ budget.passes = HookPasses /\ \E d \in Installable : Register(d)
    \/ \E i \in DOMAIN plugins, ok \in BOOLEAN : LoadSettles(i, ok)
    \/ \E k \in {"activate", "deactivate"} : StartPass(k, "client")
    \/ StartPass("dispose", "none")
    \/ \E p \in DOMAIN passes, ok \in BOOLEAN : HookSettles(p, ok)

\* installed plugins taken through activateAll, deactivateAll and disposeAll,
\* each hook resolving or rejecting
SpecHooks == HookInit /\ [][HookNext]_vars

StartInit ==
    /\ SupervisorInit
    /\ maximumRetries = 2
    /\ initialDelayMs = 100
    /\ HostInit
    /\ budget = [NoBudget EXCEPT !.connects = StartCalls, !.signals = StartSignals]

StartNext ==
    \/ Start
    \/ \E l \in DOMAIN loops : LoginResolves(l)
    \/ \E l \in DOMAIN loops : LoginRejects(l)
    \/ \E l \in DOMAIN loops : WaitElapses(l)
    \/ TransportReady
    \/ \E k \in SignalKinds : Signal(k)
    \/ \E t \in timers : TimerFires(t)
    \/ \E r \in reconnects, ok \in BOOLEAN : DestroySettles(r, ok)

\* a host without plugins on which start() is called more than once, at any
\* moment of the connection's life
SpecStart == StartInit /\ [][StartNext]_vars

UnbindInit ==
    /\ SupervisorInit
    /\ maximumRetries = 0
    /\ initialDelayMs = 100
    /\ HostInit
    /\ budget = [NoBudget EXCEPT !.plugins = UnbindPlugins,
                                 !.passes = UnbindPasses, !.binds = UnbindBinds]

\* plugins call the functions registerEvent returned to them: one whose
\* listener is subscribed, or, when some listener that was subscribed is
\* subscribed no more, one whose listener is gone (FreshListener is in no
\* list, as that listener is)
UnbindNext ==
    \/ budget.passes = UnbindPasses /\ \E d \in Installable : Register(d)
    \/ \E i \in DOMAIN plugins, ok \in BOOLEAN : LoadSettles(i, ok)
    \/ StartPass("activate", "client")
    \/ \E p \in DOMAIN passes, ok \in BOOLEAN : HookSettles(p, ok)
    \/ \E p \in DOMAIN passes, e \in EventNames : PluginRegistersEvent(p, e)
    \/ \E k \in DOMAIN listeners :
            Unsubscribe(listeners[k].plugin, listeners[k].eventName,
                        listeners[k].listener)
    \/ /\ UnbindBinds - budget.binds > Cardinality(ListenersInUse)
       /\ \E i \in DOMAIN plugins, e \in EventNames : Unsubscribe(i, e, FreshListener)

\* plugins subscribe from their onActivate hooks on the connection object and
\* unsubscribe with the functions registerEvent returned
SpecUnbind == UnbindInit /\ [][UnbindNext]_vars

CtxInit ==
    /\ SupervisorInit
    /\ maximumRetries = 0
    /\ initialDelayMs = 100
    /\ HostInit
    /\ budget = [NoBudget EXCEPT !.plugins = CtxPlugins, !.passes = CtxPasses]

\* the code of a plugin runs in onLoad (a context built without a
\* connection) and in the hook a pass awaits (the context the pass built),
\* and calls sendMessage on the facade of its context
FacadeNext ==
    \/ budget.passes = CtxPasses /\ \E d \in Installable : Register(d)
    \/ \E i \in DOMAIN plugins, ok \in BOOLEAN : LoadSettles(i, ok)
    \/ \E c \in {"client", "none"} : StartPass("activate", c)
    \/ StartPass("dispose", "none")
    \/ \E p \in DOMAIN passes, ok \in BOOLEAN : HookSettles(p, ok)
    \/ \E p \in DOMAIN passes, ch \in Channels :
            PluginSendsMessage(plugins[passes[p].at].identity,
                               ContextClient(passes[p].kind, passes[p].client), ch)
    \/ \E i \in DOMAIN plugins, ch \in Channels :
            plugins[i].loading /\ PluginSendsMessage(plugins[i].identity, "none", ch)

\* plugins are registered and taken through passes called with and without
\* the connection object, and their code sends messages
SpecFacade == CtxInit /\ [][FacadeNext]_vars

\* the code of a plugin, in onLoad and in the hook a pass awaits, writes to
\* the storage of its context
StoreNext ==
    \/ budget.passes = CtxPasses /\ \E d \in Installable : Register(d)
    \/ \E i \in DOMAIN plugins, ok \in BOOLEAN : LoadSettles(i, ok)
    \/ \E c \in {"client", "none"} : StartPass("activate", c)
    \/ StartPass("dispose", "none")
    \/ \E p \in DOMAIN passes, ok \in BOOLEAN : HookSettles(p, ok)
    \/ \E p \in DOMAIN passes, k \in {"rolls"} : PluginStores(passes[p].storage, k)
    \/ \E i \in DOMAIN plugins, k \in {"rolls"} :
            plugins[i].loading /\ PluginStores(plugins[i].loadStorage, k)

\* plugins are registered and taken through passes, and their code keeps
\* data in the storage of the contexts it is handed
SpecStore == CtxInit /\ [][StoreNext]_vars

\* the settings the environment and the configuration file can give, and
\* the values tried for each
Settings ==
    {LOG_LEVEL_KEY, LOG_FILE_KEY, RETRY_LIMIT_KEY, RETRY_INITIAL_KEY, RETRY_MAX_KEY,
     "logging.level", "logging.filePath", "connection.maximumRetries",
     "connection.initialDelayMs", "connection.maximumDelayMs"}

ValuesOf(setting) ==
    CASE setting = LOG_LEVEL_KEY ->
            { Str(<<"w", "a", "r", "n">>), Str(<<"W", "A", "R", "N">>),
              Str(<<"l", "o", "u", "d">>) }
      [] setting = LOG_FILE_KEY -> { Str(<<"/", "e">>), Str(<<>>) }
      [] setting \in {RETRY_LIMIT_KEY, RETRY_INITIAL_KEY, RETRY_MAX_KEY} ->
            { Str(<<"3">>), Str(<<"0">>), Str(<<"-", "2">>), Str(<<"x">>) }
      [] setting = "logging.level" ->
            { Str(<<"e", "r", "r", "o", "r">>), Str(<<"E", "R", "R", "O", "R">>),
              Str(<<"l", "o", "u", "d">>), Num(<<"1">>) }
      [] setting = "logging.filePath" -> { Str(<<"l">>), Str(<<"/", "f">>) }
      [] OTHER ->
            { Num(<<"1">>), Num(<<"0">>), Num(<<"-", "2">>),
              Num(<<"-", "1", ".", "5">>), Str(<<"x">>), Null }

\* the ways of giving each setting of S a value
RECURSIVE Assignments(_)
Assignments(S) ==
    IF S = {} THEN { <<>> }
    ELSE LET s == CHOOSE x \in S : TRUE
         IN { (s :> v) @@ a : v \in ValuesOf(s), a \in Assignments(S \ {s}) }

\* the value an assignment gives a setting
At(a, setting) == IF setting \in DOMAIN a THEN a[setting] ELSE Absent

\* process.env under the assignment a
EnvironmentOf(a, token) ==
    [k \in {TOKEN_KEY, LOG_LEVEL_KEY, LOG_FILE_KEY, RETRY_LIMIT_KEY,
            RETRY_INITIAL_KEY, RETRY_MAX_KEY} |->
        IF k = TOKEN_KEY THEN token ELSE At(a, k)]

\* the parsed configuration file under the assignment a; a section none of
\* whose fields is given is left out, or written as {} when `bare`
FileOf(a, bare, directories) ==
    LET logging == [level |-> At(a, "logging.level"),
                    filePath |-> At(a, "logging.filePath")]
        connection == [maximumRetries |-> At(a, "connection.maximumRetries"),
                       initialDelayMs |-> At(a, "connection.initialDelayMs"),
                       maximumDelayMs |-> At(a, "connection.maximumDelayMs")]
        Kept(section) ==
            IF bare \/ \E k \in DOMAIN section : section[k] # Absent
            THEN section ELSE Absent
    IN [logging |-> Kept(logging), connection |-> Kept(connection),
        pluginDirectories |-> directories]

ConfigInit ==
    /\ SupervisorInit
    /\ maximumRetries = 0
    /\ initialDelayMs = 100
    /\ plugins = <<>>
    /\ listeners = <<>>
    /\ passes = <<>>
    /\ journal = <<>>
    /\ pluginStorage = <<>>
    /\ isReady = FALSE
    /\ readyFired = FALSE
    /\ loggerClosed = FALSE
    /\ shutdowns = <<>>
    /\ budget = NoBudget
    /\ configuration = Pending
    /\ \E S \in { T \in SUBSET Settings : Cardinality(T) <= MaxGiven } :
       \E a \in Assignments(S) :
          /\ processEnv \in { EnvironmentOf(a, token) :
                                token \in {Str(<<"t">>), Absent} }
          /\ fileConfig \in
                { FileOf(a, bare, directories) :
                    bare \in BOOLEAN,
                    directories \in {Absent, [t |-> "array", items |-> << <<"p">> >>]} }
                \cup { Unreadable(code) : code \in {"ENOENT", "SyntaxError", "EACCES"} }

ConfigNext == LoadConfiguration

\* the process is started with some environment and some configuration file
\* and loads its configuration
SpecConfig == ConfigInit /\ [][ConfigNext]_vars

\* ---------------------------------------------------------------- claims

\* C1: with maximumRetries = N >= 0 a connect() whose logins all reject makes
\* exactly N + 1 login attempts with N waits between them, and rejects with
\* the error of the last attempt; for N = 2, 100 ms, 1000 ms that is three
\* attempts with waits 100 then 200.
C1_AttemptsAreRetriesPlusOne ==
    \A l \in DOMAIN loops :
        (maximumRetries >= 0 /\ loops[l].phase = "rejected") =>
            /\ loops[l].logins = maximumRetries + 1
            /\ Len(loops[l].waits) = maximumRetries
            /\ loops[l].error = loops[l].logins
            /\ (maximumRetries = 2 /\ initialDelayMs = 100 /\ maximumDelayMs = 1000)
                  => loops[l].waits = <<100, 200>>

\* C2: a connect() called while a performLogin loop is running starts no loop
\* of its own and is handed that loop; at most one login is in flight; all
\* callers handed the same loop see the same outcome and the same error.
C2_SingleFlight ==
    /\ \A c \in DOMAIN calls :
          calls[c].joined # {} =>
              /\ ~calls[c].owner
              /\ calls[c].joined = {calls[c].loop}
    /\ Cardinality({ l \in DOMAIN loops : loops[l].phase = "login" }) <= 1
    /\ \A c, d \in DOMAIN calls :
          calls[c].loop = calls[d].loop =>
              /\ calls[c].outcome = calls[d].outcome
              /\ calls[c].error = calls[d].error
              /\ calls[c].outcome = IF Running(calls[c].loop) THEN "pending"
                                    ELSE loops[calls[c].loop].phase

\* two callers of one loop, the second having joined while it ran, both
\* rejected with the same error
C2_Witness ==
    \E c, d \in DOMAIN calls :
        /\ c # d
        /\ calls[c].owner
        /\ ~calls[d].owner
        /\ calls[d].joined = {calls[c].loop}
        /\ calls[c].outcome = "rejected"
        /\ calls[d].outcome = "rejected"
        /\ calls[d].error = calls[c].error
        /\ calls[c].error > 0

\* C3: at most one reconnection timer is pending and at most one performLogin
\* loop is running, in every reachable state.
C3_OneTimerOneLoop ==
    /\ Cardinality(timers) <= 1
    /\ Cardinality(RunningLoops) <= 1
    /\ activeTimer # 0 <=> timers # {}
    /\ \A t \in timers : t.id = activeTimer

\* a timer is pending while a loop is running
C3_Witness ==
    /\ Cardinality(timers) = 1
    /\ Cardinality(RunningLoops) = 1
    /\ reconnects # {}

\* C4: currentAttempt never exceeds maximumRetries + 1 when maximumRetries >= 0,
\* and no step taken while a performLogin loop keeps running decreases it.
C4_AttemptMonotoneBounded ==
    /\ [](maximumRetries >= 0 => currentAttempt <= maximumRetries + 1)
    /\ [][\A l \in DOMAIN loops :
            (Running(l) /\ l \in DOMAIN loops' /\ loops'[l].phase \in {"login", "wait"})
                => currentAttempt' >= currentAttempt]_vars

\* a loop at its last permitted attempt, after a second connect() joined it
C4_Witness ==
    /\ maximumRetries = 2
    /\ currentAttempt = 2
    /\ \E l \in RunningLoops : loops[l].phase = "login" /\ loops[l].logins = 2
    /\ \E c \in DOMAIN calls : ~calls[c].owner

\* C6: clear() with a timer pending takes that timer away from the runtime and
\* empties the slot, so the reconnection it would have started cannot run;
\* clear() with no timer pending changes nothing.
C6_ClearCancels ==
    [][Clear =>
        /\ activeTimer' = 0
        /\ \A t \in timers' : t.id # activeTimer
        /\ timers' \subseteq timers
        /\ reconnects' = reconnects
        /\ UNCHANGED <<currentAttempt, connectPromise, loops, calls>>
        /\ ~TimerPending => UNCHANGED vars]_vars

\* a timer was scheduled, is gone, and no reconnection was ever started
C6_Witness ==
    /\ budget.signals < MaxSignals
    /\ timers = {}
    /\ activeTimer = 0
    /\ reconnects = {}
    /\ DOMAIN calls = {}
    /\ budget.connects = MaxConnects

\* the descriptors that pass every check of register
C8_Accepted ==
    { d \in Descriptors : validatePluginDescriptor(d) = "ok" /\ Compatible(d) }

\* C8: a descriptor that passes every check of register and whose identity is
\* not listed adds one entry to list(), named name@version; when its onLoad
\* settles the entry is still there, with status loaded (onLoad succeeded) or
\* error (onLoad failed); no identity is ever listed twice.
C8_RegisterListsOnce ==
    /\ [](LET listed == list
          IN \A i, j \in DOMAIN listed :
                /\ listed[i].identity = listed[j].identity => i = j
                /\ listed[i].identity =
                      listed[i].manifest.name \o "@" \o listed[i].manifest.version)
    /\ [][\A d \in C8_Accepted :
            ( /\ \A i \in DOMAIN plugins :
                    plugins[i].name # d.name \/ plugins[i].version # d.version
              /\ Register(d) )
            => LET before == list
                   after == list'
               IN /\ Len(after) = Len(before) + 1
                  /\ \A i \in DOMAIN before : after[i] = before[i]
                  /\ after[Len(after)].identity = d.name \o "@" \o d.version]_vars
    /\ [][\A i \in DOMAIN plugins, ok \in BOOLEAN :
            LoadSettles(i, ok)
            => LET before == list
                   after == list'
               IN /\ DOMAIN after = DOMAIN before
                  /\ after[i].identity = before[i].identity
                  /\ after[i].status = IF ok THEN "loaded" ELSE "error"]_vars

\* two plugins are listed, the first failed to load and the second has just
\* loaded
C8_Witness ==
    /\ Len(list) = 2
    /\ list[1].status = "error"
    /\ list[2].status = "loaded"
    /\ journal = <<Emit("loaded", list[2].identity)>>

\* C9: register with a descriptor whose name and version are those of a
\* registered plugin fails, invokes no hook, emits nothing and leaves the
\* entries, their statuses and their order as they were.
C9_DuplicateRejected ==
    [][(\E d \in Descriptors :
          /\ \E i \in DOMAIN plugins :
                plugins[i].name = d.name /\ plugins[i].version = d.version
          /\ Register(d))
       => /\ Len(journal') = 1
          /\ journal'[1].t = "throw"
          /\ list' = list
          /\ UNCHANGED <<plugins, listeners, passes>>]_vars

\* two plugins are registered and a register call has just been refused as a
\* duplicate
C9_Witness ==
    /\ Len(plugins) = 2
    /\ journal = <<Throw("duplicate")>>

\* what C10 calls a malformed descriptor
C10_Malformed(d) ==
    \/ d.name = ""
    \/ d.version = ""
    \/ d.apiVersion = ""
    \/ d.unknownField
    \/ \E h \in HookNames : d.hooks[h] # "function"
    \/ \E k \in DOMAIN d.events : d.events[k].type # "function"

\* the host core version lies outside the range the descriptor declares
C10_OutOfRange(d) ==
    /\ d.compatibility.declared
    /\ \/ /\ d.compatibility.minimum # <<>>
          /\ ~VersionLeq(d.compatibility.minimum, coreVersion)
       \/ /\ d.compatibility.maximum # <<>>
          /\ ~VersionLeq(coreVersion, d.compatibility.maximum)

\* the descriptors C10 is about
C10_Rejected ==
    { d \in Descriptors :
        C10_Malformed(d) \/ d.apiVersion # "1.0.0" \/ C10_OutOfRange(d) }

\* C10: register with a descriptor that is malformed, declares another
\* apiVersion than the supported one, or declares a compatibility range the
\* host core version is outside of, fails: no entry is created, nothing is
\* emitted, no hook is invoked, the registry is unchanged.
C10_RejectedLeavesNoTrace ==
    [][(\E d \in C10_Rejected : Register(d))
       => /\ Len(journal') = 1
          /\ journal'[1].t = "throw"
          /\ journal'[1].n # "duplicate"
          /\ list' = list
          /\ UNCHANGED <<plugins, listeners, passes>>]_vars

\* a plugin is registered and a later register call has just been refused
\* for its compatibility range
C10_Witness ==
    /\ Len(plugins) = 1
    /\ journal = <<Throw("incompatible")>>

\* C5: every shutdown() call goes through its steps in the order: the
\* deactivation of the plugins finishes, then the supervisor's timer is
\* cleared, then the transport is destroyed.
C5_DeactivateClearDestroy ==
    \A s \in DOMAIN shutdowns :
        LET steps == shutdowns[s].steps
        IN \A k \in DOMAIN steps :
              /\ steps[k] = "clear" =>
                    \E j \in 1..(k - 1) : steps[j] = "deactivated"
              /\ steps[k] = "destroy" =>
                    \E j \in 1..(k - 1) : steps[j] = "clear"

\* C7: once a shutdown() call has returned, a further shutdown() call leaves
\* the host (isReady, the logger), the plugins (entries, statuses, listeners)
\* and the supervisor (attempt counter, timer slot and timer, connect slot) as
\* the first call left them.
C7_SecondShutdownChangesNothing ==
    [][Returned =>
        /\ UNCHANGED <<isReady, loggerClosed>>
        /\ UNCHANGED <<plugins, listeners>>
        /\ UNCHANGED <<currentAttempt, activeTimer, connectPromise, timers>>]_vars

\* an activateAll pass has just returned
C11_ActivateAllReturned ==
    /\ Len(journal) = 1
    /\ journal[1].t = "emit"
    /\ journal[1].n \in {"activated", "activationFailed"}

\* the plugin an activateAll pass takes up has status loaded
C11_TakesUpLoadedOnly ==
    \A p \in DOMAIN passes' :
        ( /\ passes'[p].kind = "activate"
          /\ p \in DOMAIN passes => passes[p].at # passes'[p].at )
        => plugins'[passes'[p].at].status = "loaded"

\* C11 as stated: activateAll takes up entries with status loaded only; when
\* a pass returns no entry has status loaded (every entry was present when the
\* pass was called: plugins are registered before the first pass); an
\* activateAll called right after one returned invokes no hook and leaves
\* statuses and bindings as they are.
C11_ActivateAllIdempotent ==
    /\ [][C11_TakesUpLoadedOnly]_vars
    /\ [][\A p \in DOMAIN passes, ok \in BOOLEAN :
            ( /\ passes[p].kind = "activate"
              /\ p \notin DOMAIN passes'
              /\ HookSettles(p, ok) )
            => \A i \in DOMAIN plugins' : plugins'[i].status # "loaded"]_vars
    /\ [][(C11_ActivateAllReturned /\ StartPass("activate", "client"))
            => /\ journal' = <<>>
               /\ UNCHANGED <<plugins, listeners, passes>>]_vars

\* C11 amended: activateAll takes up entries with status loaded only and
\* leaves each entry it took up active or in error; an activateAll called when
\* no entry has status loaded invokes no hook and leaves statuses and bindings
\* as they are.  (An entry that becomes loaded behind the position of a
\* running pass stays loaded when the pass returns.)
C11_ActivateAllIdempotentWhenNoneLoaded ==
    /\ [][C11_TakesUpLoadedOnly]_vars
    /\ [][\A p \in DOMAIN passes, ok \in BOOLEAN :
            ( /\ passes[p].kind = "activate"
              /\ HookSettles(p, ok) )
            => plugins'[passes[p].at].status = IF ok THEN "active" ELSE "error"]_vars
    /\ [][( /\ \A i \in DOMAIN plugins : plugins[i].status # "loaded"
            /\ StartPass("activate", "client") )
            => /\ journal' = <<>>
               /\ UNCHANGED <<plugins, listeners, passes>>]_vars

\* the second of two activateAll calls found nothing to do: a plugin is
\* active, none is loaded, and the call returned at once
C11_Witness ==
    /\ budget.passes = LifePasses - 2
    /\ budget.binds = LifeBinds
    /\ passes = <<>>
    /\ journal = <<>>
    /\ \E i \in DOMAIN plugins : plugins[i].status = "active"
    /\ \A i \in DOMAIN plugins : plugins[i].status # "loaded"

\* C12 as stated: when a deactivateAll pass returns, every plugin that was
\* active when it was called has an empty binding list.
C12_EmptyWhenDeactivateAllReturns ==
    [][\A p \in DOMAIN passes, ok \in BOOLEAN :
          ( /\ passes[p].kind = "deactivate"
            /\ p \notin DOMAIN passes'
            /\ HookSettles(p, ok) )
          => \A i \in passes[p].was : plugins'[i].eventBindings = <<>>]_vars

\* C12 amended: when a deactivateAll pass has finished with a plugin, that
\* plugin's binding list is empty, whether onDeactivate succeeded (status
\* loaded) or failed (status error).
C12_EmptyWhenDeactivated ==
    [][\A p \in DOMAIN passes, ok \in BOOLEAN :
          ( /\ passes[p].kind = "deactivate"
            /\ HookSettles(p, ok) )
          => /\ plugins'[passes[p].at].eventBindings = <<>>
             /\ plugins'[passes[p].at].status = IF ok THEN "loaded" ELSE "error"]_vars

\* a plugin subscribed from a hook, its onDeactivate has just failed, and no
\* binding is left
C12_Witness ==
    /\ budget.binds < OverlapBinds
    /\ Len(journal) = 1
    /\ journal[1].n = "deactivationFailed"
    /\ \A i \in DOMAIN plugins : plugins[i].eventBindings = <<>>
    /\ listeners = <<>>

\* the subscriptions plugin i has live on the connection object
C13_LiveOf(i) ==
    { [eventName |-> listeners[k].eventName, listener |-> listeners[k].listener] :
        k \in { n \in DOMAIN listeners : listeners[n].plugin = i } }

\* the subscriptions plugin i's binding list names
C13_ListedOf(i) ==
    { plugins[i].eventBindings[k] : k \in DOMAIN plugins[i].eventBindings }

C14_DisposeLeavesNoBinding ==
    [][\A p \in DOMAIN passes :
          (passes[p].kind = "dispose" /\ \E ok \in BOOLEAN : HookSettles(p, ok))
              => /\ plugins'[passes[p].at].eventBindings = <<>>
                 /\ \A k \in DOMAIN listeners' :
                        listeners'[k].plugin # passes[p].at]_vars

\* the entries of the journal of kind t
C15_Entries(t) == { k \in DOMAIN journal : journal[k].t = t }

\* C15: when the connection object has dispatched an event, the dispatch did
\* not throw, every listener subscribed to the event was called, and each
\* handler that threw was logged straight away, and nothing else was.
C15_FailingHandlerContained ==
    LET invoked == C15_Entries("handler")
        threw == { k \in invoked : journal[k].out = "throws" }
    IN invoked # {}
        => /\ C15_Entries("throw") = {}
           /\ Cardinality(invoked)
                = Cardinality({ k \in DOMAIN listeners :
                                    listeners[k].eventName = journal[1].n })
           /\ \A k \in threw :
                /\ k < Len(journal)
                /\ journal[k + 1] = Logged(journal[k].n, journal[k].id)
           /\ Cardinality(C15_Entries("log")) = Cardinality(threw)

\* the first of two listeners threw, was logged, and the second was called
C15_Witness ==
    /\ Len(listeners) = 2
    /\ Len(journal) = 3
    /\ journal[1].t = "handler" /\ journal[1].out = "throws"
    /\ journal[2].t = "log"
    /\ journal[3].t = "handler"

\* connect() call c returned normally after budget.stub + 1 logins and
\* budget.stub waits
C16_ResolvedAfterStub(c) ==
    /\ c \in DOMAIN calls
    /\ calls[c].outcome = "resolved"
    /\ loops[calls[c].loop].logins = budget.stub + 1
    /\ Len(loops[calls[c].loop].waits) = budget.stub

\* C16: with unlimited retries and a login that rejects k - 1 calls and then
\* resolves, no connect() call ever rejects and every connect() call
\* eventually resolves, the loop having made exactly k logins and k - 1 waits.
C16_UnlimitedRetriesResolve ==
    /\ [](\A c \in DOMAIN calls : calls[c].outcome # "rejected")
    /\ \A c \in 1..StubConnects :
          (c \in DOMAIN calls) ~> C16_ResolvedAfterStub(c)

\* a connect() resolved on the fifth login after four waits
C16_Witness ==
    /\ budget.stub = 4
    /\ C16_ResolvedAfterStub(1)
    /\ loops[calls[1].loop].logins = 5
    /\ Len(loops[calls[1].loop].waits) = 4

\* the notification a pass emits for a hook that failed
C17_Failure(kind) ==
    CASE kind = "activate" -> "activationFailed"
      [] kind = "deactivate" -> "deactivationFailed"
      [] kind = "dispose" -> "disposeFailed"

\* the plugins after position i that a pass of this kind takes up, as the
\* plugins are once the failure is recorded
C17_Later(kind, i) ==
    { j \in DOMAIN plugins' :
        /\ j > i
        /\ CASE kind = "activate" -> plugins'[j].status = "loaded"
             [] kind = "deactivate" -> plugins'[j].status = "active"
             [] kind = "dispose" -> plugins'[j].status # "disposed" }

\* C17: when the hook a pass awaits fails, the pass does not throw: it sets
\* the plugin's status to error, emits the failure notification, and goes on
\* to the first later plugin it is to take up, returning when there is none.
C17_FailingHookContained ==
    [][\A p \in DOMAIN passes :
          HookSettles(p, FALSE)
              => LET f == passes[p]
                     later == C17_Later(f.kind, f.at)
                 IN /\ plugins'[f.at].status = "error"
                    /\ journal'[1] = Emit(C17_Failure(f.kind), plugins[f.at].identity)
                    /\ \A k \in DOMAIN journal' : journal'[k].t # "throw"
                    /\ IF later = {}
                       THEN p \notin DOMAIN passes'
                       ELSE /\ p \in DOMAIN passes'
                            /\ passes'[p].at \in later
                            /\ \A j \in later : passes'[p].at <= j
                            /\ journal'[2] = Hook(HookOf(f.kind),
                                                  plugins[passes'[p].at].identity)]_vars

\* an activateAll whose first onActivate failed awaits the second plugin's
C17_Witness ==
    /\ Len(plugins) = 2
    /\ plugins[1].status = "error"
    /\ \E p \in DOMAIN passes : passes[p].kind = "activate" /\ passes[p].at = 2
    /\ journal = <<Emit("activationFailed", plugins[1].identity),
                   Hook("onActivate", plugins[2].identity)>>

\* C18: start() called while the transport reports ready returns without
\* calling connect(): no login is issued and the supervisor's attempt
\* counter, timer and in-flight connect stay as they are.
C18_StartWhileReadyIsNoOp ==
    [][(session = "ready" /\ Start)
          => /\ UNCHANGED <<currentAttempt, activeTimer, timers, connectPromise,
                            loops, reconnects, session>>
             /\ \A c \in DOMAIN calls' \ DOMAIN calls :
                    calls'[c].outcome = "skipped"
             /\ \A c \in DOMAIN calls : calls'[c] = calls[c]]_vars

\* start() returned without connecting while a reconnection timer was pending
C18_Witness ==
    /\ session = "ready"
    /\ activeTimer # 0
    /\ \E c \in DOMAIN calls : calls[c].outcome = "skipped"

\* loadConfiguration returned a configuration
C19_Loaded == configuration # Pending /\ ~IsFailure(configuration)

\* what the configuration file gives for a field of one of its sections
C19_FromFile(section, field) ==
    IF "failure" \in DOMAIN fileConfig THEN Absent
    ELSE IF fileConfig[section] = Absent THEN Absent
    ELSE fileConfig[section][field]

\* the field of configuration.connection
C19_Connection(field) ==
    IF configuration.connection = Absent THEN Absent
    ELSE configuration.connection[field]

\* a connection setting holds the environment's integer when the variable is
\* set, the file's when it is not and the file gives one, and nothing otherwise
C19_Number(variable, field) ==
    C19_Connection(field) =
        IF Truthy(processEnv[variable]) THEN ParseInt(processEnv[variable])
        ELSE IF C19_FromFile("connection", field) # Absent
        THEN ParseInt(C19_FromFile("connection", field))
        ELSE Absent

\* C19: in the configuration loadConfiguration returns, the log level, the
\* log file path and each of connection.maximumRetries, initialDelayMs and
\* maximumDelayMs hold the environment's value when the environment supplies
\* one, and the configuration file's value only when it does not.
C19_EnvironmentFirst ==
    C19_Loaded =>
        /\ configuration.logLevel =
              IF Truthy(processEnv[LOG_LEVEL_KEY])
              THEN Str(ToLowerCase(processEnv[LOG_LEVEL_KEY].text))
              ELSE IF Truthy(C19_FromFile("logging", "level"))
              THEN Str(ToLowerCase(C19_FromFile("logging", "level").text))
              ELSE Absent
        /\ configuration.logFilePath =
              IF Truthy(processEnv[LOG_FILE_KEY]) THEN processEnv[LOG_FILE_KEY]
              ELSE IF Truthy(C19_FromFile("logging", "filePath"))
              THEN Str(PathResolve(ConfigDirectory,
                               C19_FromFile("logging", "filePath").text))
              ELSE Absent
        /\ C19_Number(RETRY_LIMIT_KEY, "maximumRetries")
        /\ C19_Number(RETRY_INITIAL_KEY, "initialDelayMs")
        /\ C19_Number(RETRY_MAX_KEY, "maximumDelayMs")

\* DICECORD_RETRY_LIMIT=3 and a file with connection.maximumRetries: 1 give 3
C19_Witness ==
    /\ C19_Loaded
    /\ processEnv[RETRY_LIMIT_KEY] = Str(<<"3">>)
    /\ C19_FromFile("connection", "maximumRetries") = Num(<<"1">>)
    /\ configuration.connection.maximumRetries = Integer(3)

\* a number written with a fraction that is not zero
C20_Fractional(text) ==
    \E d \in DOMAIN text, k \in DOMAIN text :
        d < k /\ text[d] = "." /\ text[k] \in DOMAIN DigitValue /\ text[k] # "0"

\* the value the file gives is not a number, or is a number below -1
C20_Refused(value) ==
    /\ value # Absent
    /\ \/ value.t # "num"
       \/ /\ Head(value.text) = "-"
          /\ \/ LeadingDigits(Tail(value.text), 0) > 1
             \/ LeadingDigits(Tail(value.text), 0) = 1 /\ C20_Fractional(value.text)

\* C20: loadConfiguration fails whenever the configuration file gives
\* connection.maximumRetries, connection.initialDelayMs or
\* connection.maximumDelayMs a value that is not a number or is below -1.
C20_RefusedValueFails ==
    (/\ configuration # Pending
     /\ \E field \in {"maximumRetries", "initialDelayMs", "maximumDelayMs"} :
            C20_Refused(C19_FromFile("connection", field)))
        => IsFailure(configuration)

\* the status changes of the plugin lifecycle: registered to loaded or error,
\* loaded to active or error, active to loaded or error, and any status but
\* disposed to disposed or error
C21_Allowed(from, to) ==
    \/ from = "registered" /\ to \in {"loaded", "error", "disposed"}
    \/ from = "loaded" /\ to \in {"active", "error", "disposed"}
    \/ from = "active" /\ to \in {"loaded", "error", "disposed"}
    \/ from = "error" /\ to = "disposed"

\* C21: every status change of a plugin entry is one of the changes of the
\* lifecycle, and an entry with status disposed never changes status again.
C21_StatusChangesFollowLifecycle ==
    [][\A i \in DOMAIN plugins :
          plugins'[i].status # plugins[i].status
              => C21_Allowed(plugins[i].status, plugins'[i].status)]_vars

\* C22: a plugin whose hook failed in a pass of one kind is not taken up by a
\* later pass of that kind; here, the pass that follows the failure at once.
C22_FailedHookNotInvokedAgain ==
    [][\A i \in DOMAIN plugins, kind \in PassKinds :
          (\E k \in DOMAIN journal :
                journal[k] = Emit(Notification(kind, FALSE), plugins[i].identity))
              => \A k \in DOMAIN journal' :
                    journal'[k] # Hook(HookOf(kind), plugins[i].identity)]_vars

\* the loaded plugins after position i, which an activateAll that is done
\* with plugin i has still to take up
C23_Remaining(i) ==
    { j \in DOMAIN plugins' : j > i /\ plugins'[j].status = "loaded" }

\* C23: when the onActivate an activateAll awaits fails, the pass leaves the
\* plugin with status error, an empty binding list and no listener on the
\* connection object (those it subscribed from the hook included, and none
\* for its declared events), emits activationFailed, and goes on to the next
\* loaded plugin.
C23_FailedActivationTornDown ==
    [][\A p \in DOMAIN passes :
          (passes[p].kind = "activate" /\ HookSettles(p, FALSE))
              => LET i == passes[p].at
                     remaining == C23_Remaining(i)
                 IN /\ plugins'[i].status = "error"
                    /\ plugins'[i].eventBindings = <<>>
                    /\ \A k \in DOMAIN listeners' : listeners'[k].plugin # i
                    /\ Emit("activationFailed", plugins[i].identity)
                            \in { journal'[k] : k \in DOMAIN journal' }
                    /\ IF remaining = {}
                       THEN p \notin DOMAIN passes'
                       ELSE /\ passes'[p].at \in remaining
                            /\ \A j \in remaining : passes'[p].at <= j
                            /\ Hook("onActivate", plugins[passes'[p].at].identity)
                                    \in { journal'[k] : k \in DOMAIN journal' }]_vars

\* the first plugin subscribed from its onActivate, which then failed: the
\* subscription is gone and the pass awaits the second plugin's onActivate
C23_Witness ==
    /\ Len(plugins) = 2
    /\ plugins[1].status = "error"
    /\ budget.passes = LifePasses - 1
    /\ budget.binds = LifeBinds - 1
    /\ listeners = <<>>
    /\ journal = <<Emit("activationFailed", plugins[1].identity),
                   Hook("onActivate", plugins[2].identity)>>

\* C24: a pass that moves from one plugin to another moves to a plugin
\* registered later, and it invokes that plugin's hook in the step in which
\* the hook it was awaiting has settled and been reported, not before.
C24_HooksInOrderOneAtATime ==
    [][\A p \in DOMAIN passes :
          (p \in DOMAIN passes' /\ passes'[p].at # passes[p].at)
              => LET f == passes[p]
                 IN /\ passes'[p].at > f.at
                    /\ passes'[p].kind = f.kind
                    /\ Len(journal') = 2
                    /\ \E ok \in BOOLEAN :
                          journal'[1] = Emit(Notification(f.kind, ok),
                                             plugins[f.at].identity)
                    /\ journal'[2] = Hook(HookOf(f.kind),
                                          plugins[passes'[p].at].identity)]_vars

\* a disposeAll whose first onDispose failed awaits the second plugin's
C24_Witness ==
    /\ Len(plugins) = 2
    /\ \E p \in DOMAIN passes : passes[p].kind = "dispose" /\ passes[p].at = 2
    /\ journal = <<Emit("disposeFailed", plugins[1].identity),
                   Hook("onDispose", plugins[2].identity)>>

\* the connect() frames made in this step by the forceReconnect of timer t
C25_CallsOf(t) ==
    { c \in DOMAIN calls' :
        /\ calls'[c].via.timer = t
        /\ c \notin DOMAIN calls \/ calls'[c] # calls[c] }

\* C25 as stated: when the destroy of a scheduled reconnection has settled,
\* connect() is called and the attempt counter restarts: it is 1 once the
\* first login of the reconnection is under way.
C25_ReconnectionRestartsCounter ==
    [][\A r \in reconnects, ok \in BOOLEAN :
          DestroySettles(r, ok)
              => /\ C25_CallsOf(r.timer) # {}
                 /\ currentAttempt' = 1]_vars

\* C25: when a reconnection timer fires the transport is destroyed and no
\* login is issued; when the destroy has settled, failed or not, connect()
\* is called: with no connect() in flight it resets the attempt counter and
\* issues the first login of a new loop, and with one in flight it joins that
\* call and leaves the counter and the loops as they are.
C25_ReconnectionDestroysThenConnects ==
    [][/\ \A t \in timers :
            TimerFires(t) => session' = "none" /\ UNCHANGED <<loops, currentAttempt>>
       /\ \A r \in reconnects, ok \in BOOLEAN :
            DestroySettles(r, ok)
              => /\ C25_CallsOf(r.timer) # {}
                 /\ \A c \in C25_CallsOf(r.timer) :
                      /\ calls'[c].via.destroyed = ok
                      /\ calls'[c].outcome = "pending"
                      /\ IF connectPromise = 0
                         THEN /\ currentAttempt' = 1
                              /\ calls'[c].owner
                              /\ loops'[calls'[c].loop].phase = "login"
                              /\ loops'[calls'[c].loop].logins = 1
                         ELSE /\ ~calls'[c].owner
                              /\ calls'[c].loop = connectPromise
                              /\ UNCHANGED <<currentAttempt, loops, connectPromise>>]_vars

\* a reconnection whose destroy failed has started a new login loop
C25_Witness ==
    \E c \in DOMAIN calls :
        /\ calls[c].via.timer # 0
        /\ ~calls[c].via.destroyed
        /\ calls[c].owner
        /\ calls[c].outcome = "pending"
        /\ loops[calls[c].loop].logins = 1
        /\ currentAttempt = 1

\* C26: a disconnect or error signal received while a reconnection timer is
\* pending changes nothing in the supervisor; received with no timer pending
\* it schedules one timeout of initialDelayMs and notes it in activeTimer; and
\* no more than one reconnection timer is ever pending, the one activeTimer
\* names.
C26_SignalsDebounced ==
    /\ [][\A kind \in {"shardDisconnect", "shardError"} :
            Signal(kind)
              => IF activeTimer # 0
                 THEN UNCHANGED <<supVars, budget>>
                 ELSE /\ activeTimer' # 0
                      /\ timers' = timers \cup
                            {[id |-> activeTimer', delay |-> initialDelayMs]}
                      /\ Cardinality(timers') = Cardinality(timers) + 1
                      /\ UNCHANGED <<currentAttempt, connectPromise, loops,
                                     calls, reconnects, session>>]_vars
    /\ [](/\ Cardinality(timers) <= 1
          /\ \A t \in timers : t.id = activeTimer)

\* a reconnection is pending after initialDelayMs, a second one having
\* been scheduled, fired and settled before
C26_Witness ==
    /\ activeTimer # 0
    /\ \E t \in timers : t.id = activeTimer /\ t.delay = initialDelayMs
    /\ budget.signals = MaxSignals - 2
    /\ reconnects = {}

\* C27: once a session-invalidation signal has been handled, the reconnection
\* that is pending is one scheduled with zero delay: in a step in which the
\* handler changes the state, and in a state the handler leaves as it is.
C27_InvalidationReconnectsAtOnce ==
    /\ [][Signal("invalidated")
            => \E t \in timers' : t.id = activeTimer' /\ t.delay = 0]_vars
    /\ []((ENABLED (Signal("invalidated") /\ UNCHANGED vars))
            => \E t \in timers : t.id = activeTimer /\ t.delay = 0)

\* C29: whenever the transport emits ready while some plugin has status
\* loaded, the host starts an activateAll pass, which takes up the first of
\* the loaded plugins.
C29_ReadyActivatesLoaded ==
    [][(TransportReady /\ \E i \in DOMAIN plugins : plugins[i].status = "loaded")
          => \E p \in DOMAIN passes' \ DOMAIN passes :
                /\ passes'[p].kind = "activate"
                /\ plugins[passes'[p].at].status = "loaded"
                /\ \A i \in 1..(passes'[p].at - 1) : plugins[i].status # "loaded"]_vars

\* C28 as stated: the k-th wait of every login loop is
\* min(initialDelayMs * 2^(k-1), maximumDelayMs), whatever the configuration.
C28_EveryWaitCapped ==
    \A l \in DOMAIN loops : \A k \in DOMAIN loops[l].waits :
        loops[l].waits[k] = Min(initialDelayMs * 2^(k - 1), maximumDelayMs)

\* C28: the first wait of a login loop is initialDelayMs and the k-th, for
\* k >= 2, is min(initialDelayMs * 2^(k-1), maximumDelayMs); no wait exceeds
\* maximumDelayMs when initialDelayMs does not.
C28_BackoffDoublesUnderCeiling ==
    \A l \in DOMAIN loops : \A k \in DOMAIN loops[l].waits :
        /\ loops[l].waits[k] =
                IF k = 1 THEN initialDelayMs
                ELSE Min(initialDelayMs * 2^(k - 1), maximumDelayMs)
        /\ initialDelayMs <= maximumDelayMs => loops[l].waits[k] <= maximumDelayMs

\* a loop waited initialDelayMs and then twice the ceiling, which is less
\* than the double of initialDelayMs
C28_Witness ==
    \E l \in DOMAIN loops :
        /\ loops[l].waits = <<initialDelayMs, maximumDelayMs, maximumDelayMs>>
        /\ initialDelayMs < maximumDelayMs
        /\ maximumDelayMs < 2 * initialDelayMs

\* the sequence without its k-th element
C30_Without(seq, k) == SubSeq(seq, 1, k - 1) \o SubSeq(seq, k + 1, Len(seq))

\* C30: calling the function registerEvent returned takes exactly its
\* listener off the connection object and exactly its entry out of the
\* plugin's binding list, every other listener, entry and plugin staying as
\* it is; calling it when its listener is subscribed no more (it was called
\* before, or teardownEvents ran) changes no list.
C30_UnsubscribeRemovesExactlyOne ==
    [][/\ \A k \in DOMAIN listeners :
            Unsubscribe(listeners[k].plugin, listeners[k].eventName,
                        listeners[k].listener)
              => /\ listeners' = C30_Without(listeners, k)
                 /\ \E m \in DOMAIN plugins[listeners[k].plugin].eventBindings :
                      /\ plugins[listeners[k].plugin].eventBindings[m].listener
                            = listeners[k].listener
                      /\ plugins' = [plugins EXCEPT
                            ![listeners[k].plugin].eventBindings = C30_Without(@, m)]
       /\ \A i \in DOMAIN plugins, e \in EventNames :
            Unsubscribe(i, e, FreshListener)
              => UNCHANGED <<plugins, listeners>>]_vars

\* of two listeners subscribed from onActivate hooks that succeeded, one was
\* unsubscribed and the other is in place
C30_Witness ==
    /\ budget.binds = UnbindBinds - 2
    /\ \A i \in DOMAIN plugins : plugins[i].status \in {"loaded", "active"}
    /\ Len(listeners) = 1
    /\ Len(plugins[listeners[1].plugin].eventBindings) = 1
    /\ journal = <<>>

\* the listeners recorded in the binding list of plugin i
C31_Recorded(i) ==
    { plugins[i].eventBindings[k].listener : k \in DOMAIN plugins[i].eventBindings }

\* C31: in every state the manager reaches, teardownEvents(plugin, connection)
\* leaves the plugin's binding list empty and every other plugin as it is;
\* with the connection object it takes the recorded listeners, and no other,
\* off the connection; without a connection it leaves the listeners where
\* they are; with an empty list it changes nothing; applied to its own result
\* it changes nothing.
C31_TeardownClearsBindings ==
    \A i \in DOMAIN plugins, c \in {"client", "none"} :
        LET st == [plugins |-> plugins, listeners |-> listeners]
            r == teardownEvents(st, i, c)
            Kept(l) == l.listener \notin C31_Recorded(i)
        IN /\ r.plugins = [plugins EXCEPT ![i].eventBindings = <<>>]
           /\ c = "client" => r.listeners = SelectSeq(listeners, Kept)
           /\ c = "none" => r.listeners = listeners
           /\ plugins[i].eventBindings = <<>> => r = st
           /\ teardownEvents(r, i, c) = r

\* a deactivateAll made without a connection has torn down a plugin that had
\* subscribed: its list is empty and its listener is still on the connection
C31_Witness ==
    \E i \in DOMAIN plugins :
        /\ plugins[i].status \in {"loaded", "error"}
        /\ plugins[i].eventBindings = <<>>
        /\ \E k \in DOMAIN listeners : listeners[k].plugin = i
        /\ passes = <<>>

\* the connection of the base context that the context of pass p was built on
C32_ClientOf(p) == ContextClient(passes[p].kind, passes[p].client)

\* C32: a step sends a message only as a sendMessage call made on a context
\* that was built with the connection object, for a fetched channel that
\* exists and is no direct-message channel, and it changes nothing else; a
\* sendMessage call on a context built without a connection (the onLoad
\* context, the onDispose context, a pass called without a connection)
\* throws the not-ready error, and sendMessage is the one operation such a
\* facade has.
C32_SendsOnlyThroughFacade ==
    /\ [][(\E k \in DOMAIN journal' : journal'[k].t = "send")
            => /\ \E p \in DOMAIN passes :
                    /\ C32_ClientOf(p) = "client"
                    /\ journal' = <<Sent("text", plugins[passes[p].at].identity)>>
               /\ UNCHANGED <<plugins, listeners, passes, session>>]_vars
    /\ [](/\ Capabilities(createClientFacade("none")) = {"sendMessage"}
          /\ \A ch \in Channels :
               /\ \A p \in DOMAIN passes :
                    C32_ClientOf(p) = "none"
                      => sendMessage(createClientFacade(C32_ClientOf(p)), ch,
                                     plugins[passes[p].at].identity)
                            = <<Throw("notReady")>>
               /\ \A i \in DOMAIN plugins :
                    plugins[i].loading
                      => sendMessage(createClientFacade("none"), ch,
                                     plugins[i].identity)
                            = <<Throw("notReady")>>)

\* the code of a plugin, run by an activateAll called with the connection
\* object, has sent a message to a guild text channel
C32_Witness ==
    \E p \in DOMAIN passes :
        /\ passes[p].kind = "activate"
        /\ passes[p].client = "client"
        /\ journal = <<Sent("text", plugins[passes[p].at].identity)>>

\* C33: every registered identity has one Map in pluginStorage, the context
\* built by register and the context of every pass carry the Map of their
\* plugin's identity, no two identities have the same Map; no step gives an
\* identity another Map or takes an entry out of one, and what the code of
\* one plugin stores leaves the Map of every other identity as it is.
C33_StoragePerIdentity ==
    /\ [](/\ \A i \in DOMAIN plugins :
               /\ plugins[i].identity \in DOMAIN pluginStorage
               /\ plugins[i].loadStorage = pluginStorage[plugins[i].identity].id
          /\ \A p \in DOMAIN passes :
               passes[p].storage = pluginStorage[plugins[passes[p].at].identity].id
          /\ \A x, y \in DOMAIN pluginStorage :
               x # y => pluginStorage[x].id # pluginStorage[y].id)
    /\ [][/\ \A x \in DOMAIN pluginStorage :
               /\ x \in DOMAIN pluginStorage'
               /\ pluginStorage'[x].id = pluginStorage[x].id
               /\ pluginStorage[x].entries \subseteq pluginStorage'[x].entries
          /\ \A p \in DOMAIN passes, k \in {"rolls"} :
               PluginStores(passes[p].storage, k)
                 => \A x \in DOMAIN pluginStorage :
                       x # plugins[passes[p].at].identity
                         => pluginStorage'[x] = pluginStorage[x]]_vars

\* the Map of a plugin that a pass has built a context for holds what the
\* plugin's code stored, and the Map of another plugin is empty
C33_Witness ==
    \E p \in DOMAIN passes, i \in DOMAIN plugins :
        /\ i # passes[p].at
        /\ ~plugins[passes[p].at].loading
        /\ pluginStorage[plugins[passes[p].at].identity].entries # {}
        /\ pluginStorage[plugins[i].identity].entries = {}

\* C34: no step invokes onActivate of a plugin while an activateAll pass is
\* still awaiting the onActivate of that plugin.
C34_ActivateInvokedOncePerActivation ==
    [][\A k \in DOMAIN journal' :
          (journal'[k].t = "hook" /\ journal'[k].n = "onActivate")
            => ~\E p \in DOMAIN passes :
                  /\ passes[p].kind = "activate"
                  /\ plugins[passes[p].at].identity = journal'[k].id
                  /\ p \in DOMAIN passes'
                  /\ passes'[p].at = passes[p].at]_vars

\* C35: once a shutdown() call has returned, no step of the supervisor issues a
\* transport login (no retry loop enters its login phase) and none starts a
\* reconnection (no forceReconnect run is added).
C35_QuietAfterShutdown ==
    [][Returned =>
          /\ reconnects' \subseteq reconnects
          /\ \A l \in DOMAIN loops' :
                loops'[l].phase = "login" =>
                   /\ l \in DOMAIN loops
                   /\ loops[l].phase = "login"
                   /\ loops'[l].logins = loops[l].logins]_vars

\* C36: once a shutdown() call has returned, no plugin has status active.
C36_NoActivePluginAfterShutdown ==
    Returned => \A i \in DOMAIN plugins : plugins[i].status # "active"

\* C37: a reconnection (forceReconnect, which begins by destroying the
\* transport) starts only when no connect() retry loop is in its login or its
\* backoff wait and no other reconnection is under way.
C37_ReconnectionsDoNotOverlapConnects ==
    [][reconnects' \ reconnects # {} =>
          /\ RunningLoops = {}
          /\ reconnects = {}]_vars

\* C38: for every maximumRetries, a connect() call has resolved only if the
\* last transport login of its retry loop succeeded (every earlier login of the
\* loop failed and was followed by a wait), and a running retry loop ends
\* normally only from its login phase, never when a backoff wait elapses.
C38_ResolvesOnlyAfterLogin ==
    /\ [](\A c \in DOMAIN calls :
            calls[c].outcome = "resolved" =>
               /\ calls[c].loop \in DOMAIN loops
               /\ loops[calls[c].loop].phase = "resolved"
               /\ loops[calls[c].loop].logins = Len(loops[calls[c].loop].waits) + 1)
    /\ [][\A l \in RunningLoops :
            (l \in DOMAIN loops' /\ loops'[l].phase = "resolved") =>
               loops[l].phase = "login"]_vars

\* a connect() call has resolved after its loop retried at least once, with a
\* positive maximumRetries
C38_Witness ==
    \E c \in DOMAIN calls :
       /\ calls[c].outcome = "resolved"
       /\ calls[c].loop \in DOMAIN loops
       /\ loops[calls[c].loop].waits # <<>>
       /\ maximumRetries > 0

\* the hooks of plugin i that a step invokes
C39_Invoked(i) ==
    { h \in HookNames :
        \E k \in DOMAIN journal' : journal'[k] = Hook(h, plugins[i].identity) }

\* C39: hooks are invoked in lifecycle order: a step invokes onActivate of a
\* plugin only when its status is loaded, onDeactivate only when its status is
\* active, and once a plugin is disposed (its onDispose resolved) no step
\* invokes a hook of it or changes its status.
C39_HooksInLifecycleOrder ==
    [][\A i \in DOMAIN plugins :
          /\ "onActivate" \in C39_Invoked(i) => plugins[i].status = "loaded"
          /\ "onDeactivate" \in C39_Invoked(i) => plugins[i].status = "active"
          /\ plugins[i].status = "disposed" =>
                /\ C39_Invoked(i) = {}
                /\ plugins'[i].status = "disposed"]_vars

\* the listeners plugin i has on the connection object; where plugins make no
\* registerEvent call these are the listeners of its declared events
C40_ListenersOf(i) == { k \in DOMAIN listeners : listeners[k].plugin = i }

\* C40: when no pass is under way, an active plugin has one live listener per
\* declared event and every other plugin has none.
C40_ListenersMatchDeclaredEvents ==
    passes = <<>> =>
       \A i \in DOMAIN plugins :
          Cardinality(C40_ListenersOf(i)) =
             IF plugins[i].status = "active" THEN Len(plugins[i].events) ELSE 0

====
